---- MODULE Spec2Model ----
(***************************************************************************)
(* A model of uVec (src/include/uvec.h), the generic C vector, instantiated *)
(* for an identifiable T (compared by == and <) such as the int of          *)
(* src/test/test.c; elements are integers, and the size of T matters only   *)
(* to the threshold of uvec_insertion_index_sorted.                         *)
(*                                                                          *)
(* A vector is the record [allocated, count, storage, buf]:                 *)
(*   allocated, count  the two uvec_uint fields of struct UVec_T;           *)
(*   storage           what the storage pointer refers to: "null" (NULL),   *)
(*                     "owned" (a buffer obtained from the allocator and    *)
(*                     not released) or "released" (a buffer that has been  *)
(*                     passed to free: the pointer dangles);                *)
(*   buf               the slots of the buffer storage refers to, slot i of *)
(*                     the C array being buf[i + 1]. A released buffer      *)
(*                     has no slots: an access through the dangling         *)
(*                     pointer is undefined (ub) and, when the process      *)
(*                     goes on, reads an indeterminate value or writes to   *)
(*                     no slot of the vector.                               *)
(* uvec_uint is an unsigned integer of UintBits bits: all its arithmetic is *)
(* taken modulo 2^UintBits.                                                 *)
(***************************************************************************)
EXTENDS Integers, Sequences, FiniteSets, TLC

VARIABLES v, last, scn

vars == <<v, last, scn>>

\* ------------------------------------------------------------------ bounds

\* Width of uvec_uint in bits (16, 32 or 64 in the source, scaled down).
UintBits == 3

\* No operation of Spec makes the vector longer than this.
MaxLen == 5

\* Longest array handed to uvec_append_array.
MaxArr == 2

\* Elements pushed, inserted and appended.
Items == {1, 2}

\* Longest vector handed to uvec_sort and uvec_insertion_index_sorted.
MaxSortLen == 4

\* Elements of those vectors.
SortItems == {1, 2, 3}

\* Items looked up in them: below, among and above their elements.
SearchItems == {0, 1, 2, 3, 4}

\* Elements handed to uvec_insert_sorted_unique: one more than a buffer of
\* 2^(UintBits - 1) slots holds.
UniqueItems == {1, 2, 3, 4, 5}

\* sizeof(T) of the instantiations searched: linear_search_thresh 16, 2, 1, 0.
ElementSizes == {4, 32, 64, 128}

\* sizeof(T) of the instantiations of SpecSorted: linear_search_thresh 16, 1.
SortedSizes == {4, 64}

\* Largest array a vector of SpecPair is built from.
MaxPairLen == 3

\* Boundaries the stack of SpecSortStack holds.
SmallStack == 2

\* ---------------------------------------------------------------- uvec_uint

UVEC_UINT_MAX == 2^UintBits - 1

UVEC_INDEX_NOT_FOUND == UVEC_UINT_MAX

\* Conversion of an integer to uvec_uint.
Wrap(x) == x % (UVEC_UINT_MAX + 1)

Uints == 0..UVEC_UINT_MAX

\* x >> k on unsigned integers.
Shr(x, k) == x \div (2^k)

RECURSIVE BitOr(_, _)
\* a | b on unsigned integers.
BitOr(a, b) ==
    IF a = 0 THEN b
    ELSE IF b = 0 THEN a
    ELSE (IF a % 2 = 1 \/ b % 2 = 1 THEN 1 ELSE 0) + 2 * BitOr(a \div 2, b \div 2)

\* Mutant of p_uvec_uint_next_power_2: the step (x)|=(x)>>1u is missing.
next_power_2_no_shift1(x) ==
    LET x0 == Wrap(x + UVEC_UINT_MAX)
        x2 == BitOr(x0, Shr(x0, 2))
        x3 == BitOr(x2, Shr(x2, 4))
        x4 == BitOr(x3, Shr(x3, 8))
        x5 == BitOr(x4, Shr(x4, 16))
    IN  Wrap(x5 + 1)

\* p_uvec_uint_next_power_2(x): --x, x |= x >> 1, 2, 4, 8, 16, ++x.
p_uvec_uint_next_power_2(x) ==
    LET x0 == Wrap(x + UVEC_UINT_MAX)
        x1 == BitOr(x0, Shr(x0, 1))
        x2 == BitOr(x1, Shr(x1, 2))
        x3 == BitOr(x2, Shr(x2, 4))
        x4 == BitOr(x3, Shr(x3, 8))
        x5 == BitOr(x4, Shr(x4, 16))
    IN  Wrap(x5 + 1)

\* ------------------------------------------------------------------ memory

UVEC_OK == "UVEC_OK"

UVEC_NO == "UVEC_NO"

UVEC_ERR == "UVEC_ERR"

\* The value of a slot that was never written (or that lies outside the buffer).
Indeterminate == 0 - 1

\* n slots that were never written.
Fresh(n) == [i \in 1..n |-> Indeterminate]

\* The first slots of buf kept, in a buffer of n slots.
Resized(buf, n) == [i \in 1..n |-> IF i <= Len(buf) THEN buf[i] ELSE Indeterminate]

\* storage[i] read; outside the buffer the read is undefined.
ReadSlot(buf, i) == IF i < Len(buf) THEN buf[i + 1] ELSE Indeterminate

\* storage[i] = x; outside the buffer the write is undefined and lost.
WriteSlot(buf, i, x) == IF i < Len(buf) THEN [buf EXCEPT ![i + 1] = x] ELSE buf

\* memmove(&storage[dst], &storage[src], n * sizeof(T)).
MemMove(buf, dst, src, n) ==
    [k \in 1..Len(buf) |->
        IF dst <= k - 1 /\ k - 1 < dst + n THEN ReadSlot(buf, src + (k - 1 - dst))
        ELSE buf[k]]

\* memcpy(&storage[dst], array, n * sizeof(T)).
MemCpy(buf, dst, array, n) ==
    [k \in 1..Len(buf) |->
        IF dst <= k - 1 /\ k - 1 < dst + n THEN array[k - dst]
        ELSE buf[k]]

\* Whether an access to slots [from, from + n) of storage is undefined: the
\* slots lie outside the buffer, or the buffer was released.
Invalid(w, from, n) == n > 0 /\ (from + n > Len(w.buf) \/ w.storage # "owned")

\* The live elements, slots [0, count).
Live(w) == [i \in 1..w.count |-> ReadSlot(w.buf, i - 1)]

(***************************************************************************)
(* UVEC_REALLOC(vec->storage, sizeof(T) * n): the set of outcomes.          *)
(*   null     the call returned NULL;                                       *)
(*   storage  what the new pointer refers to (the old one, when null);      *)
(*   buf      the slots of that buffer;                                     *)
(*   alloc    "ok", "fail" (NULL, the old buffer untouched), and for a      *)
(*            request of 0 bytes, which is implementation-defined,          *)
(*            "zero_buf" (the old buffer released, a buffer of no slots     *)
(*            returned) or "null_freed" (the old buffer released, NULL      *)
(*            returned);                                                    *)
(*   ub       the call was undefined: storage had been released.            *)
(***************************************************************************)
Realloc(w, n) ==
    IF w.storage = "released"
    THEN { [null |-> FALSE, storage |-> "owned", buf |-> Fresh(n), alloc |-> "ok", ub |-> TRUE],
           [null |-> TRUE, storage |-> w.storage, buf |-> w.buf, alloc |-> "fail", ub |-> TRUE] }
    ELSE IF n = 0
    THEN { [null |-> FALSE, storage |-> "owned", buf |-> <<>>, alloc |-> "zero_buf", ub |-> FALSE],
           [null |-> TRUE, storage |-> IF w.storage = "null" THEN "null" ELSE "released",
            buf |-> <<>>, alloc |-> "null_freed", ub |-> FALSE],
           [null |-> TRUE, storage |-> w.storage, buf |-> w.buf, alloc |-> "fail", ub |-> FALSE] }
    ELSE { [null |-> FALSE, storage |-> "owned",
            buf |-> IF w.storage = "owned" THEN Resized(w.buf, n) ELSE Fresh(n),
            alloc |-> "ok", ub |-> FALSE],
           [null |-> TRUE, storage |-> w.storage, buf |-> w.buf, alloc |-> "fail", ub |-> FALSE] }

\* The result of a call: the vector after it, the status returned, the element
\* or index returned (Indeterminate when none), the allocator's outcome ("none"
\* when it was not called) and whether the call was undefined.
Result(w, ret, out, alloc, ub) ==
    [v |-> w, ret |-> ret, out |-> out, alloc |-> alloc, ub |-> ub]

\* The vector left by a realloc that returned NULL: no field is assigned.
AfterNull(w, m) == [w EXCEPT !.storage = m.storage, !.buf = m.buf]

\* -------------------------------------------------------- storage manager

\* uvec_alloc_T, uvec_init.
uvec_init == [allocated |-> 0, count |-> 0, storage |-> "null", buf |-> <<>>]

\* Mutant of GrownCapacity: grows by two slots instead of doubling.
GrownCapacity_plus2(allocated) == IF allocated # 0 THEN Wrap(allocated + 2) ELSE 2

\* uvec_expand_if_required_T: new_allocated.
GrownCapacity(allocated) == IF allocated # 0 THEN Wrap(allocated * 2) ELSE 2

\* Mutant of uvec_expand_if_required: allocated is assigned before the check of
\* new_storage.
uvec_expand_if_required_early_commit(w) ==
    IF w.count < w.allocated THEN {Result(w, UVEC_OK, Indeterminate, "none", FALSE)}
    ELSE LET new_allocated == GrownCapacity(w.allocated)
         IN  { IF m.null
               THEN Result([AfterNull(w, m) EXCEPT !.allocated = new_allocated],
                           UVEC_ERR, Indeterminate, m.alloc, m.ub)
               ELSE Result([w EXCEPT !.allocated = new_allocated, !.storage = m.storage,
                                     !.buf = m.buf],
                           UVEC_OK, Indeterminate, m.alloc, m.ub)
               : m \in Realloc(w, new_allocated) }

\* uvec_expand_if_required_T.
uvec_expand_if_required(w) ==
    IF w.count < w.allocated THEN {Result(w, UVEC_OK, Indeterminate, "none", FALSE)}
    ELSE LET new_allocated == GrownCapacity(w.allocated)
         IN  { IF m.null
               THEN Result(AfterNull(w, m), UVEC_ERR, Indeterminate, m.alloc, m.ub)
               ELSE Result([w EXCEPT !.allocated = new_allocated, !.storage = m.storage,
                                     !.buf = m.buf],
                           UVEC_OK, Indeterminate, m.alloc, m.ub)
               : m \in Realloc(w, new_allocated) }

\* uvec_reserve_capacity_T.
uvec_reserve_capacity(w, capacity) ==
    IF w.allocated < capacity
    THEN LET rounded == p_uvec_uint_next_power_2(capacity)
         IN  { IF m.null
               THEN Result(AfterNull(w, m), UVEC_ERR, Indeterminate, m.alloc, m.ub)
               ELSE Result([w EXCEPT !.allocated = rounded, !.storage = m.storage,
                                     !.buf = m.buf],
                           UVEC_OK, Indeterminate, m.alloc, m.ub)
               : m \in Realloc(w, rounded) }
    ELSE {Result(w, UVEC_OK, Indeterminate, "none", FALSE)}

\* Mutant of uvec_expand: size is added to allocated.
uvec_expand_allocated(w, size) == uvec_reserve_capacity(w, Wrap(w.allocated + size))

\* uvec_expand: uvec_reserve_capacity of count + size.
uvec_expand(w, size) == uvec_reserve_capacity(w, Wrap(w.count + size))

\* uvec_shrink_T.
uvec_shrink(w) ==
    IF w.count # 0
    THEN LET new_allocated == p_uvec_uint_next_power_2(w.count)
         IN  IF new_allocated < w.allocated
             THEN { IF m.null
                    THEN Result(AfterNull(w, m), UVEC_ERR, Indeterminate, m.alloc, m.ub)
                    ELSE Result([w EXCEPT !.allocated = new_allocated,
                                          !.storage = m.storage, !.buf = m.buf],
                                UVEC_OK, Indeterminate, m.alloc, m.ub)
                    : m \in Realloc(w, new_allocated) }
             ELSE {Result(w, UVEC_OK, Indeterminate, "none", FALSE)}
    ELSE \* UVEC_FREE(vec->storage); vec->allocated = 0: storage is not reset.
         {Result([w EXCEPT !.allocated = 0,
                           !.storage = IF w.storage = "null" THEN "null" ELSE "released",
                           !.buf = <<>>],
                 UVEC_OK, Indeterminate, "none", w.storage = "released")}

\* ------------------------------------------------------ positional mutator

\* uvec_push_T.
uvec_push(w, item) ==
    { IF e.ret # UVEC_OK THEN [e EXCEPT !.ret = UVEC_ERR]
      ELSE Result([e.v EXCEPT !.buf = WriteSlot(e.v.buf, e.v.count, item),
                              !.count = Wrap(e.v.count + 1)],
                  UVEC_OK, Indeterminate, e.alloc,
                  e.ub \/ Invalid(e.v, e.v.count, 1))
      : e \in uvec_expand_if_required(w) }

\* uvec_pop_T.
uvec_pop(w) ==
    LET count == Wrap(w.count + UVEC_UINT_MAX)
    IN  {Result([w EXCEPT !.count = count], UVEC_OK, ReadSlot(w.buf, count), "none",
                Invalid(w, count, 1))}

\* uvec_remove_at_T.
uvec_remove_at(w, idx) ==
    LET count == w.count
        item == ReadSlot(w.buf, idx)
        block == Wrap(count + 2 * (UVEC_UINT_MAX + 1) - idx - 1)
        moved == idx < Wrap(count + UVEC_UINT_MAX)
    IN  {Result([w EXCEPT !.buf = IF moved THEN MemMove(w.buf, idx, idx + 1, block) ELSE w.buf,
                          !.count = Wrap(w.count + UVEC_UINT_MAX)],
                UVEC_OK, item, "none",
                Invalid(w, idx, 1) \/ (moved /\ Invalid(w, idx + 1, block)))}

\* Mutant of uvec_insert_at: the block is moved before the buffer is grown, so a
\* failed growth leaves the elements shifted.
uvec_insert_at_shift_first(w, idx, item) ==
    LET shifted == [w EXCEPT !.buf = MemMove(w.buf, idx + 1, idx, w.count - idx)]
    IN  { IF e.ret # UVEC_OK THEN [e EXCEPT !.ret = UVEC_ERR]
          ELSE Result([e.v EXCEPT !.buf = WriteSlot(e.v.buf, idx, item),
                                  !.count = Wrap(e.v.count + 1)],
                      UVEC_OK, Indeterminate, e.alloc, e.ub)
          : e \in uvec_expand_if_required(shifted) }

\* uvec_insert_at_T.
uvec_insert_at(w, idx, item) ==
    { IF e.ret # UVEC_OK THEN [e EXCEPT !.ret = UVEC_ERR]
      ELSE LET moved == idx < e.v.count
               block == e.v.count - idx
               buf1 == IF moved THEN MemMove(e.v.buf, idx + 1, idx, block) ELSE e.v.buf
           IN  Result([e.v EXCEPT !.buf = WriteSlot(buf1, idx, item),
                                  !.count = Wrap(e.v.count + 1)],
                      UVEC_OK, Indeterminate, e.alloc,
                      \/ e.ub
                      \/ Invalid(e.v, idx, 1)
                      \/ (moved /\ Invalid(e.v, idx + 1, block)))
      : e \in uvec_expand_if_required(w) }

\* uvec_remove_all_T.
uvec_remove_all(w) == {Result([w EXCEPT !.count = 0], UVEC_OK, Indeterminate, "none", FALSE)}

RECURSIVE ReverseLoop(_, _, _)
\* The loop of uvec_reverse_T from index i on.
ReverseLoop(buf, i, count) ==
    IF i < count \div 2
    THEN LET temp == ReadSlot(buf, i)
             swap_idx == count - i - 1
             buf1 == WriteSlot(buf, i, ReadSlot(buf, swap_idx))
         IN  ReverseLoop(WriteSlot(buf1, swap_idx, temp), i + 1, count)
    ELSE buf

\* uvec_reverse_T.
uvec_reverse(w) ==
    {Result([w EXCEPT !.buf = ReverseLoop(w.buf, 0, w.count)], UVEC_OK, Indeterminate,
            "none", Invalid(w, 0, w.count))}

\* Mutant of uvec_append_array: room is reserved for the old count only.
uvec_append_array_reserve_old(w, isnull, array, n) ==
    IF n = 0 \/ isnull THEN {Result(w, UVEC_OK, Indeterminate, "none", FALSE)}
    ELSE LET old_count == w.count
             new_count == Wrap(old_count + n)
         IN  { IF e.ret # UVEC_OK THEN [e EXCEPT !.ret = UVEC_ERR]
               ELSE Result([e.v EXCEPT !.count = new_count,
                                       !.buf = MemCpy(e.v.buf, old_count, array, n)],
                           UVEC_OK, Indeterminate, e.alloc,
                           e.ub \/ Invalid(e.v, old_count, n))
               : e \in uvec_reserve_capacity(w, old_count) }

\* uvec_append_array_T; isnull: array is NULL.
uvec_append_array(w, isnull, array, n) ==
    IF n = 0 \/ isnull THEN {Result(w, UVEC_OK, Indeterminate, "none", FALSE)}
    ELSE LET old_count == w.count
             new_count == Wrap(old_count + n)
         IN  { IF e.ret # UVEC_OK THEN [e EXCEPT !.ret = UVEC_ERR]
               ELSE Result([e.v EXCEPT !.count = new_count,
                                       !.buf = MemCpy(e.v.buf, old_count, array, n)],
                           UVEC_OK, Indeterminate, e.alloc,
                           e.ub \/ Invalid(e.v, old_count, n))
               : e \in uvec_reserve_capacity(w, new_count) }

\* What memcpy reads through array = vec->storage, a pointer taken before
\* uvec_reserve_capacity ran (e its result): the elements of w where realloc
\* was not called or left the buffer in place; where it moved or released the
\* buffer the read is undefined and finds the old elements or anything else.
AppendSources(w, e) ==
    LET stale == {[array |-> Live(w), ub |-> TRUE],
                  [array |-> [i \in 1..w.count |-> Indeterminate], ub |-> TRUE]}
    IN  IF e.alloc = "none" THEN {[array |-> Live(w), ub |-> FALSE]}
        ELSE IF e.alloc = "ok" THEN {[array |-> Live(w), ub |-> FALSE]} \cup stale
        ELSE stale

\* uvec_append: uvec_append_array of the storage and count of vec_to_append,
\* which is other, or w itself when same.
uvec_append(w, other, same) ==
    IF ~same
    THEN { [e EXCEPT !.ub = e.ub \/ Invalid(other, 0, other.count)]
           : e \in uvec_append_array(w, other.storage = "null", Live(other), other.count) }
    ELSE IF w.count = 0 \/ w.storage = "null"
    THEN {Result(w, UVEC_OK, Indeterminate, "none", FALSE)}
    ELSE LET old_count == w.count
             new_count == Wrap(old_count + w.count)
         IN  UNION { IF e.ret # UVEC_OK THEN {[e EXCEPT !.ret = UVEC_ERR]}
                     ELSE { Result([e.v EXCEPT !.count = new_count,
                                               !.buf = MemCpy(e.v.buf, old_count, src.array,
                                                              w.count)],
                                   UVEC_OK, Indeterminate, e.alloc,
                                   e.ub \/ src.ub \/ Invalid(e.v, old_count, w.count))
                            : src \in AppendSources(w, e) }
                     : e \in uvec_reserve_capacity(w, new_count) }

\* uvec_set: storage[idx] = item.
uvec_set(w, idx, item) ==
    {Result([w EXCEPT !.buf = WriteSlot(w.buf, idx, item)], UVEC_OK, Indeterminate, "none",
            Invalid(w, idx, 1))}

\* uvec_free_T: the buffer is freed when allocated is not 0, then the vector
\* itself; storage "released" in the result stands for the vector being gone.
\* out: a buffer the vector owned was not freed.
uvec_free(w) ==
    {Result([allocated |-> 0, count |-> 0, storage |-> "released", buf |-> <<>>],
            UVEC_OK, w.allocated = 0 /\ w.storage = "owned", "none",
            w.allocated # 0 /\ w.storage # "owned")}

\* uvec_deinit: the buffer is freed when storage is not NULL.  out: a buffer
\* the vector owned was not freed.
uvec_deinit(w) ==
    {Result(uvec_init, UVEC_OK, FALSE, "none", w.storage = "released")}

(***************************************************************************)
(* uvec_copy_T: the set of outcomes.  null: the call returned NULL; copy:   *)
(* the vector returned; shared: copy->storage and vec->storage are the same *)
(* buffer.                                                                  *)
(***************************************************************************)
CopyResult(null, copy, shared, alloc, ub) ==
    [null |-> null, copy |-> copy, shared |-> shared, alloc |-> alloc, ub |-> ub]

\* Mutant of uvec_copy: the fields of vec are copied, storage included.
uvec_copy_shallow(w) ==
    {CopyResult(TRUE, uvec_init, FALSE, "fail", FALSE),
     CopyResult(FALSE, w, w.storage = "owned", "ok", FALSE)}

uvec_copy(w) ==
    {CopyResult(TRUE, uvec_init, FALSE, "fail", FALSE)}
    \cup { IF e.ret # UVEC_OK
           THEN CopyResult(TRUE, uvec_init, FALSE, e.alloc, e.ub)
           ELSE CopyResult(FALSE, e.v, FALSE, e.alloc, e.ub \/ Invalid(w, 0, w.count))
           : e \in uvec_append_array(uvec_init, w.storage = "null", Live(w), w.count) }

\* ---------------------------------------------------- equatable functions

\* equal_func of the identifiable instantiations, p_uvec_identical.
equal_func(a, b) == a = b

RECURSIVE IndexOfLoop(_, _, _)
\* for (uvec_uint i = 0; i < vec->count; ++i) of uvec_index_of_T from i on.
IndexOfLoop(w, item, i) ==
    IF i < w.count
    THEN IF equal_func(ReadSlot(w.buf, i), item) THEN i ELSE IndexOfLoop(w, item, i + 1)
    ELSE UVEC_INDEX_NOT_FOUND

\* Mutant of uvec_index_of: the scan runs over the slots of the buffer, not
\* over the live ones.
uvec_index_of_to_capacity(w, item) ==
    IndexOfLoop([w EXCEPT !.count = w.allocated], item, 0)

\* uvec_index_of_T: the index returned.
uvec_index_of(w, item) == IndexOfLoop(w, item, 0)

RECURSIVE IndexOfReverseLoop(_, _, _)
\* for (uvec_uint i = vec->count; i-- != 0;) of uvec_index_of_reverse_T, i
\* before the test.
IndexOfReverseLoop(w, item, i) ==
    IF i # 0
    THEN IF equal_func(ReadSlot(w.buf, i - 1), item) THEN i - 1
         ELSE IndexOfReverseLoop(w, item, i - 1)
    ELSE UVEC_INDEX_NOT_FOUND

\* uvec_index_of_reverse_T: the index returned.
uvec_index_of_reverse(w, item) == IndexOfReverseLoop(w, item, w.count)

\* equal_func_is_identity as P_UVEC_IMPL_EQUATABLE gets it for identifiable types.
equal_func_is_identity == TRUE

\* memcmp(a, b, n * sizeof(T)) on the slots of two buffers: 0 when the first n
\* slots are the same, the sign of the first difference otherwise.
MemCmp(a, b, n) ==
    IF \A i \in 0..(n - 1) : ReadSlot(a, i) = ReadSlot(b, i) THEN 0
    ELSE LET i == CHOOSE i \in 0..(n - 1) :
                      /\ ReadSlot(a, i) # ReadSlot(b, i)
                      /\ \A j \in 0..(i - 1) : ReadSlot(a, j) = ReadSlot(b, j)
         IN  IF ReadSlot(a, i) < ReadSlot(b, i) THEN 0 - 1 ELSE 1

RECURSIVE EqualsLoop(_, _, _)
\* for (uvec_uint i = 0; i < vec->count; ++i) of uvec_equals_T from i on.
EqualsLoop(w, other, i) ==
    IF i < w.count
    THEN IF ~equal_func(ReadSlot(w.buf, i), ReadSlot(other.buf, i)) THEN FALSE
         ELSE EqualsLoop(w, other, i + 1)
    ELSE TRUE

\* Mutant of EqualsValue: the counts are not compared.
EqualsValue_no_count(w, other, same) ==
    IF same THEN TRUE
    ELSE IF w.count = 0 THEN TRUE
    ELSE IF equal_func_is_identity THEN MemCmp(w.buf, other.buf, w.count) = 0
    ELSE EqualsLoop(w, other, 0)

\* The value uvec_equals_T returns; same: vec and other are the same vector.
EqualsValue(w, other, same) ==
    IF same THEN TRUE
    ELSE IF w.count # other.count THEN FALSE
    ELSE IF w.count = 0 THEN TRUE
    ELSE IF equal_func_is_identity THEN MemCmp(w.buf, other.buf, w.count) = 0
    ELSE EqualsLoop(w, other, 0)

\* uvec_equals_T.
uvec_equals(w, other, same) ==
    {Result(w, UVEC_OK, EqualsValue(w, other, same), "none",
            ~same /\ w.count = other.count
                  /\ (Invalid(w, 0, w.count) \/ Invalid(other, 0, w.count)))}

RECURSIVE ContainsAllLoop(_, _, _)
\* for (uvec_uint i = 0; i < other->count; ++i) of uvec_contains_all_T from i on.
ContainsAllLoop(w, other, i) ==
    IF i < other.count
    THEN IF uvec_index_of(w, ReadSlot(other.buf, i)) = UVEC_INDEX_NOT_FOUND THEN FALSE
         ELSE ContainsAllLoop(w, other, i + 1)
    ELSE TRUE

\* uvec_contains_all_T; same: vec and other are the same vector.
uvec_contains_all(w, other, same) ==
    {Result(w, UVEC_OK, IF same THEN TRUE ELSE ContainsAllLoop(w, other, 0), "none",
            ~same /\ (Invalid(other, 0, other.count)
                      \/ (other.count > 0 /\ Invalid(w, 0, w.count))))}

RECURSIVE ContainsAnyLoop(_, _, _)
\* for (uvec_uint i = 0; i < other->count; ++i) of uvec_contains_any_T from i on.
ContainsAnyLoop(w, other, i) ==
    IF i < other.count
    THEN IF uvec_index_of(w, ReadSlot(other.buf, i)) # UVEC_INDEX_NOT_FOUND THEN TRUE
         ELSE ContainsAnyLoop(w, other, i + 1)
    ELSE FALSE

\* uvec_contains_any_T; same: vec and other are the same vector.
uvec_contains_any(w, other, same) ==
    {Result(w, UVEC_OK, IF same THEN TRUE ELSE ContainsAnyLoop(w, other, 0), "none",
            ~same /\ (Invalid(other, 0, other.count)
                      \/ (other.count > 0 /\ Invalid(w, 0, w.count))))}

\* Mutant of uvec_remove: the last occurrence is the one looked up and removed.
uvec_remove_reverse(w, item) ==
    LET idx == uvec_index_of_reverse(w, item)
    IN  IF idx # UVEC_INDEX_NOT_FOUND
        THEN {[e EXCEPT !.out = TRUE] : e \in uvec_remove_at(w, idx)}
        ELSE {Result(w, UVEC_OK, FALSE, "none", Invalid(w, 0, w.count))}

\* uvec_remove_T: out is the bool returned.
uvec_remove(w, item) ==
    LET idx == uvec_index_of(w, item)
    IN  IF idx # UVEC_INDEX_NOT_FOUND
        THEN {[e EXCEPT !.out = TRUE] : e \in uvec_remove_at(w, idx)}
        ELSE {Result(w, UVEC_OK, FALSE, "none", Invalid(w, 0, w.count))}

\* uvec_push_unique_T.
uvec_push_unique(w, item) ==
    IF uvec_index_of(w, item) # UVEC_INDEX_NOT_FOUND
    THEN {Result(w, UVEC_NO, Indeterminate, "none", Invalid(w, 0, w.count))}
    ELSE {[e EXCEPT !.ub = e.ub \/ Invalid(w, 0, w.count)] : e \in uvec_push(w, item)}

\* ------------------------------------------------- sorting and searching

\* Quicksort stack size.
P_UVEC_SORT_STACK_SIZE == 64

\* Cache line size (B).
UVEC_CACHE_LINE_SIZE == 64

\* Elements from KeyedBase on stand for the values {key, tag} of a type
\* instantiated through UVEC_IMPL_COMPARABLE with a compare_func that looks at
\* key alone: the element is KeyedBase * key + tag, with tag < KeyedBase.
\* Elements below KeyedBase are those of the identifiable instantiations.
KeyedBase == 10

\* What compare_func compares of an element.
Key(x) == IF x >= KeyedBase THEN x \div KeyedBase ELSE x

\* Keyed elements of SpecSortKeyed: two keys, two tags each.
KeyedItems == {KeyedBase * key + tag : key \in 1..2, tag \in 0..1}

\* compare_func: p_uvec_less_than for the identifiable instantiations, less-than
\* on the key for the keyed one.
compare_func(a, b) == Key(a) < Key(b)

RECURSIVE IndexOfMinLoop(_, _, _)
\* for (uvec_uint i = 1; i < vec->count; ++i) of uvec_index_of_min_T from i on.
IndexOfMinLoop(w, i, min_idx) ==
    IF i < w.count
    THEN IndexOfMinLoop(w, i + 1,
                        IF compare_func(ReadSlot(w.buf, i), ReadSlot(w.buf, min_idx)) THEN i
                        ELSE min_idx)
    ELSE min_idx

\* Mutant of uvec_index_of_min: the scan runs over the slots of the buffer.
uvec_index_of_min_to_capacity(w) ==
    IF w.count = 0 THEN UVEC_INDEX_NOT_FOUND
    ELSE IndexOfMinLoop([w EXCEPT !.count = w.allocated], 1, 0)

\* uvec_index_of_min_T: the index returned.
uvec_index_of_min(w) ==
    IF w.count = 0 THEN UVEC_INDEX_NOT_FOUND ELSE IndexOfMinLoop(w, 1, 0)

RECURSIVE IndexOfMaxLoop(_, _, _)
\* for (uvec_uint i = 1; i < vec->count; ++i) of uvec_index_of_max_T from i on.
IndexOfMaxLoop(w, i, max_idx) ==
    IF i < w.count
    THEN IndexOfMaxLoop(w, i + 1,
                        IF compare_func(ReadSlot(w.buf, max_idx), ReadSlot(w.buf, i)) THEN i
                        ELSE max_idx)
    ELSE max_idx

\* uvec_index_of_max_T: the index returned.
uvec_index_of_max(w) ==
    IF w.count = 0 THEN UVEC_INDEX_NOT_FOUND ELSE IndexOfMaxLoop(w, 1, 0)

\* Mutant of SortSwap: array[len] keeps its value.
SortSwap_lost(buf, right, len) == WriteSlot(buf, right, ReadSlot(buf, len))

\* temp = array[right]; array[right] = array[len]; array[len] = temp.
SortSwap(buf, right, len) ==
    LET temp == ReadSlot(buf, right)
    IN  WriteSlot(WriteSlot(buf, right, ReadSlot(buf, len)), len, temp)

RECURSIVE SortScanRight(_, _, _, _)
\* for (++right; compare_func(array[right], pivot); ++right), right already
\* incremented once; array is storage + off. The scan ends at the first slot
\* outside the buffer, where the read is undefined.
SortScanRight(buf, off, right, pivot) ==
    IF off + right < Len(buf) /\ compare_func(ReadSlot(buf, off + right), pivot)
    THEN SortScanRight(buf, off, Wrap(right + 1), pivot)
    ELSE right

RECURSIVE SortScanLeft(_, _, _, _)
\* for (--len; compare_func(pivot, array[len]); --len), len already decremented
\* once.
SortScanLeft(buf, off, len, pivot) ==
    IF off + len < Len(buf) /\ compare_func(pivot, ReadSlot(buf, off + len))
    THEN SortScanLeft(buf, off, Wrap(len + UVEC_UINT_MAX), pivot)
    ELSE len

RECURSIVE SortPartition(_, _, _, _, _)
\* The loop for (uvec_uint right = start - 1;;) from one iteration on: the
\* buffer, right and len when it breaks, and whether a slot outside the buffer
\* was read.  r and l are where the two scans stop.
SortPartition(buf, off, right, len, pivot) ==
    CHOOSE part \in
        { IF off + r >= Len(buf) \/ off + l >= Len(buf)
          THEN [buf |-> buf, right |-> r, len |-> l, ub |-> TRUE]
          ELSE IF r >= l THEN [buf |-> buf, right |-> r, len |-> l, ub |-> FALSE]
          ELSE SortPartition(SortSwap(buf, off + r, off + l), off, r, l, pivot)
          : r \in {SortScanRight(buf, off, Wrap(right + 1), pivot)},
            l \in {SortScanLeft(buf, off, Wrap(len + UVEC_UINT_MAX), pivot)} } : TRUE

RECURSIVE SortLoop(_, _, _, _, _, _, _)
\* while (true) of uvec_sort_range_T from the test of the inner for on.
SortLoop(buf, off, start, len, pos, seed, stack) ==
    IF Wrap(start + 1) < len
    THEN LET full == pos = P_UVEC_SORT_STACK_SIZE
             pos0 == IF full THEN 0 ELSE pos
             len0 == IF full THEN stack[1] ELSE len
             width == Wrap(len0 + UVEC_UINT_MAX + 1 - start)
         IN  IF width = 0 THEN [buf |-> buf, ub |-> TRUE]
             ELSE LET index == Wrap(start + (seed % width))
                      pivot == ReadSlot(buf, off + index)
                      seed1 == Wrap(Wrap(seed * Wrap(69069)) + 1)
                      stack1 == [stack EXCEPT ![pos0 + 1] = len0]
                      part == SortPartition(buf, off, Wrap(start + UVEC_UINT_MAX), len0, pivot)
                  IN  IF part.ub \/ off + index >= Len(buf)
                      THEN [buf |-> part.buf, ub |-> TRUE]
                      ELSE SortLoop(part.buf, off, start, Wrap(part.len + 1), pos0 + 1,
                                    seed1, stack1)
    ELSE IF pos = 0 THEN [buf |-> buf, ub |-> FALSE]
    ELSE SortLoop(buf, off, len, stack[pos], pos - 1, seed, stack)

\* uvec_sort_range_T.
uvec_sort_range(w, start, len) ==
    LET sorted == SortLoop(w.buf, start, 0, len, 0, Wrap(31),
                           [i \in 1..P_UVEC_SORT_STACK_SIZE |-> Indeterminate])
    IN  {Result([w EXCEPT !.buf = sorted.buf], UVEC_OK, Indeterminate, "none",
                sorted.ub \/ (len > 1 /\ Invalid(w, start, len)))}

\* uvec_sort.
uvec_sort(w) == uvec_sort_range(w, 0, w.count)

(***************************************************************************)
(* uvec_sort_range_T one pass of its loops at a time.  q is the state of    *)
(* the call: the buffer, off (array = storage + off), start, len, pos, seed *)
(* and stack, and what the passes so far did: reach, the largest index of   *)
(* array a scan read (an index below 0 is the largest uvec_uint); reset,    *)
(* whether the stack was found full; stall, whether the last pass left the  *)
(* partition [start, len) as long as it was; ub, whether a slot outside the *)
(* buffer or the stack array was accessed.                                  *)
(***************************************************************************)
\* Mutant of SortEnter: array is storage, whatever start is.
SortEnter_from_zero(w, start, len, size) ==
    [buf |-> w.buf, off |-> 0, start |-> 0, len |-> len, pos |-> 0, seed |-> Wrap(31),
     stack |-> [i \in 1..size |-> Indeterminate], reach |-> 0, reset |-> FALSE, stall |-> FALSE,
     ub |-> FALSE]

\* T *array = vec->storage + start; start = 0; pos = 0, seed = 31.
SortEnter(w, start, len, size) ==
    [buf |-> w.buf, off |-> start, start |-> 0, len |-> len, pos |-> 0, seed |-> Wrap(31),
     stack |-> [i \in 1..size |-> Indeterminate], reach |-> 0, reset |-> FALSE, stall |-> FALSE,
     ub |-> FALSE]

\* The test of for (; start + 1 < len; ++len).
SortPending(q) == Wrap(q.start + 1) < q.len

\* Mutant of SortReset: a full stack is left as it is.
SortReset_none(q) == q

\* if (pos == P_UVEC_SORT_STACK_SIZE) len = stack[pos = 0].
SortReset(q) ==
    IF q.pos = Len(q.stack) THEN [q EXCEPT !.pos = 0, !.len = q.stack[1], !.reset = TRUE]
    ELSE q

\* start + seed % (len - start), q after the test of the stack.
SortPivotIndex(q) == Wrap(q.start + (q.seed % Wrap(q.len + UVEC_UINT_MAX + 1 - q.start)))

\* Mutant of SortNextSeed: the seed stays what it is.
SortNextSeed_same(seed) == seed

\* seed = seed * 69069 + 1.
SortNextSeed(seed) == Wrap(Wrap(seed * Wrap(69069)) + 1)

\* The larger of two indices.
SortMax(a, b) == IF a < b THEN b ELSE a

\* The body of the inner for, with the pivot at index, and its ++len; part is
\* what the partition loop leaves.
SortPass(q0, index) ==
    LET q == SortReset(q0)
    IN  CHOOSE next \in
            { [q EXCEPT !.buf = part.buf,
                        !.len = Wrap(part.len + 1),
                        !.pos = q.pos + 1,
                        !.seed = SortNextSeed(q.seed),
                        !.stack = [q.stack EXCEPT ![q.pos + 1] = q.len],
                        !.reach = SortMax(q.reach, SortMax(part.right, part.len)),
                        !.stall = (Wrap(part.len + 1) = q.len),
                        !.ub = part.ub \/ q.off + index >= Len(q.buf) \/ q.pos >= Len(q.stack)]
              : part \in {SortPartition(q.buf, q.off, Wrap(q.start + UVEC_UINT_MAX), q.len,
                                        ReadSlot(q.buf, q.off + index))} } : TRUE

\* start = len; len = stack[--pos].
SortPop(q) ==
    [q EXCEPT !.start = q.len, !.len = q.stack[q.pos], !.pos = q.pos - 1, !.stall = FALSE]

\* Mutant of SearchStep: the bounds close in on the last slot not greater than
\* item.
SearchStep_upper(buf, item, l, r) ==
    LET m == l + (r - l) \div 2
    IN  IF ~compare_func(item, ReadSlot(buf, m)) THEN [l |-> Wrap(m + 1), r |-> r]
        ELSE [l |-> l, r |-> m]

\* One iteration of the while loop of uvec_insertion_index_sorted_T.
SearchStep(buf, item, l, r) ==
    LET m == l + (r - l) \div 2
    IN  IF compare_func(ReadSlot(buf, m), item) THEN [l |-> Wrap(m + 1), r |-> r]
        ELSE [l |-> l, r |-> m]

RECURSIVE SearchBinary(_, _, _, _, _)
\* while (r - l > linear_search_thresh).
SearchBinary(buf, item, thresh, l, r) ==
    IF Wrap(r + UVEC_UINT_MAX + 1 - l) > thresh
    THEN LET b == SearchStep(buf, item, l, r)
         IN  SearchBinary(buf, item, thresh, b.l, b.r)
    ELSE [l |-> l, r |-> r]

RECURSIVE SearchLinear(_, _, _, _)
\* for (; l < r && compare_func(array[l], item); ++l).
SearchLinear(buf, item, l, r) ==
    IF l < r /\ compare_func(ReadSlot(buf, l), item)
    THEN SearchLinear(buf, item, Wrap(l + 1), r)
    ELSE l

\* linear_search_thresh for elements of sizeof_T bytes (at most
\* UVEC_CACHE_LINE_SIZE, which every uvec_uint holds).
linear_search_thresh(sizeof_T) == UVEC_CACHE_LINE_SIZE \div sizeof_T

\* uvec_insertion_index_sorted_T, T of sizeof_T bytes.
uvec_insertion_index_sorted(w, item, sizeof_T) ==
    LET b == SearchBinary(w.buf, item, linear_search_thresh(sizeof_T), 0, w.count)
    IN  {Result(w, UVEC_OK, SearchLinear(w.buf, item, b.l, b.r), "none",
                Invalid(w, 0, w.count))}

\* The index uvec_insertion_index_sorted_T returns to its callers.
InsertionIndex(w, item, sizeof_T) ==
    LET b == SearchBinary(w.buf, item, linear_search_thresh(sizeof_T), 0, w.count)
    IN  SearchLinear(w.buf, item, b.l, b.r)

\* uvec_index_of_sorted_T: storage[i] is read whatever i, the slot at count
\* included.
uvec_index_of_sorted(w, item, sizeof_T) ==
    LET i == InsertionIndex(w, item, sizeof_T)
    IN  {Result(w, UVEC_OK,
                IF w.storage # "null" /\ equal_func(ReadSlot(w.buf, i), item)
                THEN i ELSE UVEC_INDEX_NOT_FOUND,
                "none",
                Invalid(w, 0, w.count) \/ (w.storage # "null" /\ Invalid(w, i, 1)))}

\* uvec_insert_sorted_T: *idx = i is the element returned (idx is not NULL).
uvec_insert_sorted(w, item, sizeof_T) ==
    LET i == InsertionIndex(w, item, sizeof_T)
    IN  { [e EXCEPT !.out = i, !.ub = e.ub \/ Invalid(w, 0, w.count)]
          : e \in uvec_insert_at(w, i, item) }

\* uvec_insert_sorted_unique_T.
uvec_insert_sorted_unique(w, item, sizeof_T) ==
    LET i == InsertionIndex(w, item, sizeof_T)
    IN  IF i = w.count \/ ~equal_func(ReadSlot(w.buf, i), item)
        THEN { [e EXCEPT !.out = i, !.ub = e.ub \/ Invalid(w, 0, w.count)]
               : e \in uvec_insert_at(w, i, item) }
        ELSE {Result(w, UVEC_NO, i, "none", Invalid(w, 0, w.count))}

\* ------------------------------------------------------------ the program

\* What is recorded of the last call: the operation, its size or index
\* argument, its element argument, and its result.
Call(op, arg, item, res) ==
    [op |-> op, arg |-> arg, item |-> item, ret |-> res.ret, out |-> res.out,
     alloc |-> res.alloc, ub |-> res.ub]

NoCall == [op |-> "init", arg |-> 0, item |-> Indeterminate, ret |-> UVEC_OK,
           out |-> Indeterminate, alloc |-> "none", ub |-> FALSE]

NoScenario == [phase |-> "idle"]

\* A call returns with result res, or, when it was undefined, may instead end
\* the process.
Returns(op, arg, item, res) ==
    \/ /\ v' = res.v
       /\ last' = Call(op, arg, item, res)
    \/ /\ res.ub
       /\ v' = v
       /\ last' = [Call(op, arg, item, res) EXCEPT !.ret = "ABORT", !.out = Indeterminate]

Running == last.ret # "ABORT"

Arrays == UNION { [1..n -> Items] : n \in 0..MaxArr }

\* Capacities requested of uvec_reserve_capacity: 0, every power of two, one
\* more than every power of two, and the largest uvec_uint.
Capacities ==
    {0, UVEC_UINT_MAX} \cup {2^k : k \in 0..(UintBits - 1)} \cup {2^k + 1 : k \in 0..(UintBits - 1)}

Init ==
    /\ v = uvec_init
    /\ last = NoCall
    /\ scn = NoScenario

Reserve(c) ==
    /\ Running
    /\ \E res \in uvec_reserve_capacity(v, c) : Returns("reserve", c, Indeterminate, res)
    /\ UNCHANGED scn

Push(item) ==
    /\ Running
    /\ v.count < MaxLen
    /\ \E res \in uvec_push(v, item) : Returns("push", 0, item, res)
    /\ UNCHANGED scn

Pop ==
    /\ Running
    /\ v.count > 0
    /\ \E res \in uvec_pop(v) : Returns("pop", 0, Indeterminate, res)
    /\ UNCHANGED scn

InsertAt(idx, item) ==
    /\ Running
    /\ v.count < MaxLen
    /\ idx <= v.count
    /\ \E res \in uvec_insert_at(v, idx, item) : Returns("insert_at", idx, item, res)
    /\ UNCHANGED scn

RemoveAt(idx) ==
    /\ Running
    /\ idx < v.count
    /\ \E res \in uvec_remove_at(v, idx) : Returns("remove_at", idx, Indeterminate, res)
    /\ UNCHANGED scn

RemoveAll ==
    /\ Running
    /\ \E res \in uvec_remove_all(v) : Returns("remove_all", 0, Indeterminate, res)
    /\ UNCHANGED scn

AppendArray(isnull, array, n) ==
    /\ Running
    /\ Wrap(v.count + n) <= MaxLen
    /\ \E res \in uvec_append_array(v, isnull, array, n) :
           Returns("append_array", n, Indeterminate, res)
    /\ UNCHANGED scn

Shrink ==
    /\ Running
    /\ \E res \in uvec_shrink(v) : Returns("shrink", 0, Indeterminate, res)
    /\ UNCHANGED scn

Reverse ==
    /\ Running
    /\ \E res \in uvec_reverse(v) : Returns("reverse", 0, Indeterminate, res)
    /\ UNCHANGED scn

Next ==
    \/ \E c \in Capacities : Reserve(c)
    \/ \E item \in Items : Push(item)
    \/ Pop
    \/ \E idx \in Uints, item \in Items : InsertAt(idx, item)
    \/ \E idx \in Uints : RemoveAt(idx)
    \/ RemoveAll
    \/ \E array \in Arrays : AppendArray(FALSE, array, Len(array))
    \/ \E n \in 0..MaxArr : AppendArray(TRUE, <<>>, n)
    \/ Shrink
    \/ Reverse

Spec == Init /\ [][Next]_vars

\* Half of the largest uvec_uint.
HalfMax == UVEC_UINT_MAX \div 2

\* The step keeps the requested size and the lengths within HalfMax.
WithinHalf(size) == size <= HalfMax /\ v.count <= HalfMax /\ v'.count <= HalfMax

\* The operations of Spec, every size at most half of the largest uvec_uint.
NextHalf ==
    \/ \E c \in Capacities : Reserve(c) /\ WithinHalf(c)
    \/ \E item \in Items : Push(item) /\ WithinHalf(0)
    \/ Pop /\ WithinHalf(0)
    \/ \E idx \in Uints, item \in Items : InsertAt(idx, item) /\ WithinHalf(idx)
    \/ \E idx \in Uints : RemoveAt(idx) /\ WithinHalf(idx)
    \/ RemoveAll /\ WithinHalf(0)
    \/ \E array \in Arrays : AppendArray(FALSE, array, Len(array)) /\ WithinHalf(Len(array))
    \/ \E n \in 0..MaxArr : AppendArray(TRUE, <<>>, n) /\ WithinHalf(n)
    \/ Shrink /\ WithinHalf(0)
    \/ Reverse /\ WithinHalf(0)

SpecHalf == Init /\ [][NextHalf]_vars

(***************************************************************************)
(* SpecLife: the calls of Spec on a vector until it is destroyed by         *)
(* uvec_free; uvec_deinit leaves a vector that is used again.               *)
(***************************************************************************)
Deinit ==
    /\ Running
    /\ scn.phase = "idle"
    /\ \E res \in uvec_deinit(v) : Returns("deinit", 0, Indeterminate, res)
    /\ UNCHANGED scn

Free ==
    /\ Running
    /\ scn.phase = "idle"
    /\ \E res \in uvec_free(v) : Returns("free", 0, Indeterminate, res)
    /\ scn' = [phase |-> "freed"]

NextLife ==
    \/ scn.phase = "idle" /\ Next
    \/ Deinit
    \/ Free

SpecLife == Init /\ [][NextLife]_vars

\* SpecLife, every size at most half of the largest uvec_uint.
NextLifeHalf ==
    \/ scn.phase = "idle" /\ NextHalf
    \/ Deinit
    \/ Free

SpecLifeHalf == Init /\ [][NextLifeHalf]_vars

\* ------------------------------------------------------- duality scenarios

(***************************************************************************)
(* SpecDuality: the operations of Spec until a scenario starts, then either *)
(* a run of successful pushes followed by as many pops, or a successful     *)
(* InsertAt(idx, item) followed by RemoveAt(idx). scn records the live      *)
(* elements before the scenario (base), whether the vector was sound then,  *)
(* and what was pushed, popped, inserted.                                   *)
(***************************************************************************)
Idle == scn.phase = "idle"

\* The vector is sound: count <= allocated, and storage refers to a buffer of
\* allocated slots unless allocated is 0.
Sound(w) ==
    /\ w.count <= w.allocated
    /\ Len(w.buf) = w.allocated
    /\ w.allocated > 0 => w.storage = "owned"

\* A successful uvec_push, the first of the run or a further one.
DualPush(item) ==
    /\ Running
    /\ scn.phase \in {"idle", "pushing"}
    /\ v.count < MaxLen
    /\ \E res \in uvec_push(v, item) :
           /\ res.ret = UVEC_OK
           /\ Returns("push", 0, item, res)
    /\ scn' = [phase |-> "pushing",
               base |-> IF Idle THEN Live(v) ELSE scn.base,
               sound |-> IF Idle THEN Sound(v) ELSE scn.sound,
               pushed |-> IF Idle THEN <<item>> ELSE Append(scn.pushed, item),
               popped |-> <<>>]

\* A uvec_pop of the run; the scenario is done with the last of them.
DualPop ==
    /\ Running
    /\ scn.phase \in {"pushing", "popping"}
    /\ Len(scn.popped) < Len(scn.pushed)
    /\ v.count > 0
    /\ \E res \in uvec_pop(v) :
           /\ Returns("pop", 0, Indeterminate, res)
           /\ scn' = [scn EXCEPT
                         !.popped = Append(@, res.out),
                         !.phase = IF Len(scn.popped) + 1 = Len(scn.pushed)
                                   THEN "done" ELSE "popping"]

\* A successful uvec_insert_at(idx, item).
DualInsert(idx, item) ==
    /\ Running
    /\ Idle
    /\ v.count < MaxLen
    /\ idx <= v.count
    /\ \E res \in uvec_insert_at(v, idx, item) :
           /\ res.ret = UVEC_OK
           /\ Returns("insert_at", idx, item, res)
    /\ scn' = [phase |-> "inserted", base |-> Live(v), sound |-> Sound(v),
               idx |-> idx, item |-> item]

\* The uvec_remove_at(idx) that follows it.
DualRemove ==
    /\ Running
    /\ scn.phase = "inserted"
    /\ scn.idx < v.count
    /\ \E res \in uvec_remove_at(v, scn.idx) :
           Returns("remove_at", scn.idx, Indeterminate, res)
    /\ scn' = [scn EXCEPT !.phase = "removed"]

NextDuality ==
    \/ \E c \in Capacities : Idle /\ Reserve(c)
    \/ \E item \in Items : Idle /\ Push(item)
    \/ Idle /\ Pop
    \/ \E idx \in Uints, item \in Items : Idle /\ InsertAt(idx, item)
    \/ \E idx \in Uints : Idle /\ RemoveAt(idx)
    \/ Idle /\ RemoveAll
    \/ \E array \in Arrays : Idle /\ AppendArray(FALSE, array, Len(array))
    \/ \E n \in 0..MaxArr : Idle /\ AppendArray(TRUE, <<>>, n)
    \/ Idle /\ Shrink
    \/ Idle /\ Reverse
    \/ \E item \in Items : DualPush(item)
    \/ DualPop
    \/ \E idx \in Uints, item \in Items : DualInsert(idx, item)
    \/ DualRemove

SpecDuality == Init /\ [][NextDuality]_vars

\* The scenarios of SpecDuality, every size at most half of the largest uvec_uint.
NextDualityHalf ==
    \/ \E c \in Capacities : Idle /\ Reserve(c) /\ WithinHalf(c)
    \/ \E item \in Items : Idle /\ Push(item) /\ WithinHalf(0)
    \/ Idle /\ Pop /\ WithinHalf(0)
    \/ \E idx \in Uints, item \in Items : Idle /\ InsertAt(idx, item) /\ WithinHalf(0)
    \/ \E idx \in Uints : Idle /\ RemoveAt(idx) /\ WithinHalf(0)
    \/ Idle /\ RemoveAll /\ WithinHalf(0)
    \/ \E array \in Arrays : Idle /\ AppendArray(FALSE, array, Len(array)) /\ WithinHalf(0)
    \/ \E n \in 0..MaxArr : Idle /\ AppendArray(TRUE, <<>>, n) /\ WithinHalf(0)
    \/ Idle /\ Shrink /\ WithinHalf(0)
    \/ Idle /\ Reverse /\ WithinHalf(0)
    \/ \E item \in Items : DualPush(item) /\ WithinHalf(0)
    \/ DualPop /\ WithinHalf(0)
    \/ \E idx \in Uints, item \in Items : DualInsert(idx, item) /\ WithinHalf(0)
    \/ DualRemove /\ WithinHalf(0)

SpecDualityHalf == Init /\ [][NextDualityHalf]_vars

\* ------------------------------------------------ sorting and searching runs

\* Ascending order under compare_func: no element is smaller than the one
\* before it.
IsAscending(s) == \A i \in 1..(Len(s) - 1) : ~compare_func(s[i + 1], s[i])

SortArrays == UNION { [1..n -> SortItems] : n \in 0..MaxSortLen }

\* The vectors a successful uvec_append_array builds from the arrays on a
\* vector just initialised.
Built(arrays) ==
    { e.v : e \in { e \in UNION { uvec_append_array(uvec_init, FALSE, array, Len(array))
                                  : array \in arrays }
                    : e.ret = UVEC_OK /\ e.alloc \in {"ok", "none"} } }

(***************************************************************************)
(* SpecSort: uvec_sort applied to every vector over SortItems of at most    *)
(* MaxSortLen elements; scn records the live elements before the call and   *)
(* whether the call before was a uvec_sort too.                             *)
(***************************************************************************)
InitSort ==
    /\ v \in Built(SortArrays)
    /\ last = NoCall
    /\ scn = NoScenario

Sort ==
    /\ Running
    /\ \E res \in uvec_sort(v) : Returns("sort", 0, Indeterminate, res)
    /\ scn' = [phase |-> "sorted", base |-> Live(v), again |-> last.op = "sort"]

NextSort == Sort

SpecSort == InitSort /\ [][NextSort]_vars

(***************************************************************************)
(* SpecSearch: uvec_insertion_index_sorted applied to every ascending       *)
(* vector over SortItems of at most MaxSortLen elements, for every item of  *)
(* SearchItems and every element size of ElementSizes.                      *)
(***************************************************************************)
InitSearch ==
    /\ v \in Built({array \in SortArrays : IsAscending(array)})
    /\ last = NoCall
    /\ scn = NoScenario

InsertionIndexSorted(item, sizeof_T) ==
    /\ Running
    /\ \E res \in uvec_insertion_index_sorted(v, item, sizeof_T) :
           Returns("insertion_index_sorted", sizeof_T, item, res)
    /\ UNCHANGED scn

NextSearch == \E item \in SearchItems, sizeof_T \in ElementSizes : InsertionIndexSorted(item, sizeof_T)

SpecSearch == InitSearch /\ [][NextSearch]_vars

(***************************************************************************)
(* SpecSorted: a vector kept sorted, built from the empty vector by         *)
(* uvec_insert_sorted and uvec_insert_sorted_unique, with removals in       *)
(* between, and looked up by uvec_index_of_sorted.                          *)
(***************************************************************************)
InsertSorted(item, sizeof_T) ==
    /\ Running
    /\ v.count < MaxLen
    /\ \E res \in uvec_insert_sorted(v, item, sizeof_T) :
           Returns("insert_sorted", sizeof_T, item, res)
    /\ UNCHANGED scn

InsertSortedUnique(item, sizeof_T) ==
    /\ Running
    /\ v.count < MaxLen
    /\ \E res \in uvec_insert_sorted_unique(v, item, sizeof_T) :
           Returns("insert_sorted_unique", sizeof_T, item, res)
    /\ UNCHANGED scn

IndexOfSorted(item, sizeof_T) ==
    /\ Running
    /\ \E res \in uvec_index_of_sorted(v, item, sizeof_T) :
           Returns("index_of_sorted", sizeof_T, item, res)
    /\ UNCHANGED scn

NextSorted ==
    \/ \E item \in SortItems, sizeof_T \in SortedSizes : InsertSorted(item, sizeof_T)
    \/ \E item \in UniqueItems, sizeof_T \in SortedSizes : InsertSortedUnique(item, sizeof_T)
    \/ \E item \in SearchItems, sizeof_T \in SortedSizes : IndexOfSorted(item, sizeof_T)
    \/ Pop
    \/ \E idx \in Uints : RemoveAt(idx)
    \/ RemoveAll

SpecSorted == Init /\ [][NextSorted]_vars

\* The calls of SpecSorted, every length at most half of the largest uvec_uint.
NextSortedHalf == NextSorted /\ WithinHalf(0)

SpecSortedHalf == Init /\ [][NextSortedHalf]_vars

(***************************************************************************)
(* SpecPair: the calls that take two vectors.  v is vec; scn.other is a     *)
(* second vector; a call is made either on the two of them or with vec      *)
(* passed for both parameters (last.arg = 1).  The two vectors are every    *)
(* vector built from an array over Items of at most MaxPairLen elements and *)
(* then popped any number of times, so capacities differ and the slots past *)
(* count hold what was popped.                                              *)
(***************************************************************************)
PairArrays == UNION { [1..n -> Items] : n \in 0..MaxPairLen }

RECURSIVE Popped(_, _)
\* w after k calls of uvec_pop.
Popped(w, k) ==
    IF k = 0 THEN w ELSE Popped((CHOOSE e \in uvec_pop(w) : TRUE).v, k - 1)

PairVectors == UNION { {Popped(w, k) : k \in 0..w.count} : w \in Built(PairArrays) }

InitPair ==
    /\ v \in PairVectors
    /\ last = NoCall
    /\ scn \in {[phase |-> "pair", other |-> other] : other \in PairVectors}

\* The vector passed as other by the call last records.
Other == IF last.arg = 1 THEN v ELSE scn.other

Equals(same) ==
    /\ Running
    /\ \E res \in uvec_equals(v, IF same THEN v ELSE scn.other, same) :
           Returns("equals", IF same THEN 1 ELSE 0, Indeterminate, res)
    /\ UNCHANGED scn

ContainsAll(same) ==
    /\ Running
    /\ \E res \in uvec_contains_all(v, IF same THEN v ELSE scn.other, same) :
           Returns("contains_all", IF same THEN 1 ELSE 0, Indeterminate, res)
    /\ UNCHANGED scn

ContainsAny(same) ==
    /\ Running
    /\ \E res \in uvec_contains_any(v, IF same THEN v ELSE scn.other, same) :
           Returns("contains_any", IF same THEN 1 ELSE 0, Indeterminate, res)
    /\ UNCHANGED scn

NextPair ==
    \/ \E same \in BOOLEAN : Equals(same)
    \/ \E same \in BOOLEAN : ContainsAll(same)
    \/ \E same \in BOOLEAN : ContainsAny(same)

SpecPair == InitPair /\ [][NextPair]_vars

(***************************************************************************)
(* SpecFind: the lookups by value and uvec_remove, applied to every vector  *)
(* of PairVectors (live elements over Items, popped elements in the slots   *)
(* past count) and to what uvec_remove leaves of them.                      *)
(***************************************************************************)
InitFind ==
    /\ v \in PairVectors
    /\ last = NoCall
    /\ scn = NoScenario

IndexOf(item) ==
    /\ Running
    /\ Returns("index_of", 0, item,
               Result(v, UVEC_OK, uvec_index_of(v, item), "none", Invalid(v, 0, v.count)))
    /\ UNCHANGED scn

IndexOfReverse(item) ==
    /\ Running
    /\ Returns("index_of_reverse", 0, item,
               Result(v, UVEC_OK, uvec_index_of_reverse(v, item), "none",
                      Invalid(v, 0, v.count)))
    /\ UNCHANGED scn

Remove(item) ==
    /\ Running
    /\ \E res \in uvec_remove(v, item) : Returns("remove", 0, item, res)
    /\ UNCHANGED scn

NextFind ==
    \/ \E item \in SortItems : IndexOf(item)
    \/ \E item \in SortItems : IndexOfReverse(item)
    \/ \E item \in SortItems : Remove(item)

SpecFind == InitFind /\ [][NextFind]_vars

(***************************************************************************)
(* SpecUnique: uvec_push_unique applied, any number of times, to every      *)
(* vector of PairVectors; scn.only tells the runs that start from the       *)
(* vector uvec_init returns, which hold only what uvec_push_unique pushed.  *)
(***************************************************************************)
InitUnique ==
    /\ v \in PairVectors
    /\ last = NoCall
    /\ scn = [phase |-> "unique", only |-> (v = uvec_init)]

PushUnique(item) ==
    /\ Running
    /\ v.count < MaxLen
    /\ \E res \in uvec_push_unique(v, item) : Returns("push_unique", 0, item, res)
    /\ UNCHANGED scn

NextUnique == \E item \in UniqueItems : PushUnique(item)

SpecUnique == InitUnique /\ [][NextUnique]_vars

\* The calls of SpecUnique, every length at most half of the largest uvec_uint.
NextUniqueHalf == NextUnique /\ WithinHalf(0)

SpecUniqueHalf == InitUnique /\ [][NextUniqueHalf]_vars

(***************************************************************************)
(* SpecAppend: uvec_append_array applied, any number of times, to every     *)
(* vector of PairVectors; scn records the array and whether it was NULL.    *)
(***************************************************************************)
AppendArrayFrom(isnull, array, n) ==
    /\ Running
    /\ Wrap(v.count + n) <= MaxLen
    /\ \E res \in uvec_append_array(v, isnull, array, n) :
           Returns("append_array", n, Indeterminate, res)
    /\ scn' = [phase |-> "appended", isnull |-> isnull, array |-> array]

NextAppend ==
    \/ \E array \in Arrays, n \in 0..MaxArr : n <= Len(array) /\ AppendArrayFrom(FALSE, array, n)
    \/ \E n \in 0..MaxArr : AppendArrayFrom(TRUE, <<>>, n)

SpecAppend == InitFind /\ [][NextAppend]_vars

\* The calls of SpecAppend, every size at most half of the largest uvec_uint.
NextAppendHalf ==
    \/ \E array \in Arrays, n \in 0..MaxArr :
           n <= Len(array) /\ AppendArrayFrom(FALSE, array, n) /\ WithinHalf(n)
    \/ \E n \in 0..MaxArr : AppendArrayFrom(TRUE, <<>>, n) /\ WithinHalf(n)

SpecAppendHalf == InitFind /\ [][NextAppendHalf]_vars

(***************************************************************************)
(* SpecSortKeyed: uvec_sort applied, any number of times, to the vectors of *)
(* SpecSort and to every vector over KeyedItems of at most MaxSortLen       *)
(* elements, where elements with the same key and different tags are        *)
(* equivalent for compare_func.                                             *)
(***************************************************************************)
KeyedArrays == UNION { [1..n -> KeyedItems] : n \in 0..MaxSortLen }

InitSortKeyed ==
    /\ v \in Built(SortArrays \cup KeyedArrays)
    /\ last = NoCall
    /\ scn = NoScenario

SpecSortKeyed == InitSortKeyed /\ [][NextSort]_vars

(***************************************************************************)
(* SpecSortRange: uvec_sort_range on every sub-range of every vector over   *)
(* SortItems of at most MaxSortLen elements, one pass of its loops at a     *)
(* time.  scn records the vector before the call (base), the sub-range      *)
(* (lo, top) and the state of the call (q).                                 *)
(***************************************************************************)
SortRangeEnter(start, len, size) ==
    /\ Running
    /\ scn.phase # "sorting"
    /\ start + len <= v.count
    /\ scn' = [phase |-> "sorting", base |-> v, lo |-> start, top |-> len,
               q |-> SortEnter(v, start, len, size)]
    /\ UNCHANGED <<v, last>>

\* A pass has run and left the call in state q; after an access outside the
\* buffer or the stack the process may have ended instead.
SortRangeGoes(q) ==
    \/ /\ v' = [v EXCEPT !.buf = q.buf]
       /\ scn' = [scn EXCEPT !.q = q]
       /\ UNCHANGED last
    \/ /\ q.ub
       /\ last' = [NoCall EXCEPT !.op = "sort_range", !.ret = "ABORT", !.ub = TRUE]
       /\ scn' = [scn EXCEPT !.phase = "aborted"]
       /\ UNCHANGED v

\* A pass of the inner for with the pivot the seed selects.
SortRangePass ==
    /\ scn.phase = "sorting"
    /\ SortPending(scn.q)
    /\ \E q \in {SortPass(scn.q, SortPivotIndex(SortReset(scn.q)))} : SortRangeGoes(q)

SortRangePop ==
    /\ scn.phase = "sorting"
    /\ ~SortPending(scn.q)
    /\ scn.q.pos # 0
    /\ scn' = [scn EXCEPT !.q = SortPop(scn.q)]
    /\ UNCHANGED <<v, last>>

\* if (pos == 0) break: the call returns.
SortRangeReturn ==
    /\ scn.phase = "sorting"
    /\ ~SortPending(scn.q)
    /\ scn.q.pos = 0
    /\ last' = Call("sort_range", scn.top, Indeterminate,
                    Result(v, UVEC_OK, Indeterminate, "none", scn.q.ub))
    /\ scn' = [scn EXCEPT !.phase = "sorted"]
    /\ UNCHANGED v

NextSortRange ==
    \/ \E start, len \in 0..MaxSortLen : SortRangeEnter(start, len, P_UVEC_SORT_STACK_SIZE)
    \/ SortRangePass
    \/ SortRangePop
    \/ SortRangeReturn

SpecSortRange == InitSort /\ [][NextSortRange]_vars

\* One call on each vector; every loop of a call that has begun runs on.
NextSortRangeOnce ==
    \/ \E start, len \in 0..MaxSortLen :
           scn.phase = "idle" /\ SortRangeEnter(start, len, P_UVEC_SORT_STACK_SIZE)
    \/ SortRangePass
    \/ SortRangePop
    \/ SortRangeReturn

SpecSortRangeFair ==
    /\ InitSort
    /\ [][NextSortRangeOnce]_vars
    /\ WF_vars(SortRangePass \/ SortRangePop \/ SortRangeReturn)

(***************************************************************************)
(* SpecCopy: uvec_copy of a vector of PairVectors, then a call that changes *)
(* the vector and a call that changes the copy, in either order or twice on *)
(* the same one.  scn holds the copy, whether the two vectors share a       *)
(* buffer, and which of them was freed.  A call on one vector acts on the   *)
(* other one only through a shared buffer: what it writes in place is       *)
(* written for both, and what it releases or reallocates is released for    *)
(* both.                                                                    *)
(***************************************************************************)
\* The values the calls after the copy write.
NewItems == SortItems \ Items

InitCopy ==
    /\ v \in PairVectors
    /\ last = NoCall
    /\ scn = NoScenario

Copy ==
    /\ Running
    /\ scn.phase = "idle"
    /\ \E c \in uvec_copy(v) :
          /\ last' = [NoCall EXCEPT !.op = "copy", !.alloc = c.alloc, !.ub = c.ub,
                                    !.ret = IF c.null THEN UVEC_ERR ELSE UVEC_OK]
          /\ scn' = IF c.null THEN [phase |-> "failed"]
                    ELSE [phase |-> "copied", copy |-> c.copy, shared |-> c.shared,
                          gone |-> "none"]
    /\ UNCHANGED v

\* The calls that change a vector w, with their results.
Changes(w) ==
    UNION {
        {[op |-> "push", res |-> e] : e \in UNION {uvec_push(w, item) : item \in NewItems}},
        {[op |-> "pop", res |-> e] : e \in IF w.count > 0 THEN uvec_pop(w) ELSE {}},
        {[op |-> "insert_at", res |-> e] :
            e \in UNION {uvec_insert_at(w, idx, item) : idx \in 0..w.count, item \in NewItems}},
        {[op |-> "remove_at", res |-> e] :
            e \in UNION {uvec_remove_at(w, idx) : idx \in 0..(w.count - 1)}},
        {[op |-> "set", res |-> e] :
            e \in UNION {uvec_set(w, idx, item) : idx \in 0..(w.count - 1), item \in NewItems}},
        {[op |-> "shrink", res |-> e] : e \in uvec_shrink(w)},
        {[op |-> "free", res |-> e] : e \in uvec_free(w)} }

\* The other vector after a call on one that left res: unchanged, unless the
\* two share a buffer.
Touched(other, shared, res) ==
    IF ~shared THEN other
    ELSE IF res.alloc \in {"none", "fail"} /\ res.v.storage = "owned"
    THEN [other EXCEPT !.buf = res.v.buf]
    ELSE [other EXCEPT !.storage = "released", !.buf = <<>>]

\* Whether the two still share a buffer after the call.
StillShared(shared, res) ==
    shared /\ res.alloc \in {"none", "fail"} /\ res.v.storage = "owned"

\* A call on vec (side 0) or on its copy (side 1).
Change(side) ==
    /\ Running
    /\ scn.phase \in {"copied", "changed"}
    /\ scn.gone # (IF side = 0 THEN "vec" ELSE "copy")
    /\ \E c \in Changes(IF side = 0 THEN v ELSE scn.copy) :
          /\ c.res.v.count <= MaxLen
          /\ last' = Call(c.op, side, Indeterminate, c.res)
          /\ v' = IF side = 0 THEN c.res.v ELSE Touched(v, scn.shared, c.res)
          /\ scn' = [scn EXCEPT
                        !.phase = IF scn.phase = "copied" THEN "changed" ELSE "settled",
                        !.copy = IF side = 0 THEN Touched(scn.copy, scn.shared, c.res)
                                 ELSE c.res.v,
                        !.shared = StillShared(scn.shared, c.res),
                        !.gone = IF c.op # "free" THEN scn.gone
                                 ELSE IF side = 0 THEN "vec" ELSE "copy"]

NextCopy ==
    \/ Copy
    \/ \E side \in {0, 1} : Change(side)

SpecCopy == InitCopy /\ [][NextCopy]_vars

(***************************************************************************)
(* SpecExtremes: uvec_index_of_min and uvec_index_of_max on every vector    *)
(* over SortItems or KeyedItems of at most MaxSortLen elements, popped any  *)
(* number of times.                                                         *)
(***************************************************************************)
InitExtremes ==
    /\ v \in UNION { {Popped(w, k) : k \in 0..w.count} : w \in Built(SortArrays \cup KeyedArrays) }
    /\ last = NoCall
    /\ scn = NoScenario

IndexOfMin ==
    /\ Running
    /\ Returns("index_of_min", 0, Indeterminate,
               Result(v, UVEC_OK, uvec_index_of_min(v), "none", Invalid(v, 0, v.count)))
    /\ UNCHANGED scn

IndexOfMax ==
    /\ Running
    /\ Returns("index_of_max", 0, Indeterminate,
               Result(v, UVEC_OK, uvec_index_of_max(v), "none", Invalid(v, 0, v.count)))
    /\ UNCHANGED scn

NextExtremes == IndexOfMin \/ IndexOfMax

SpecExtremes == InitExtremes /\ [][NextExtremes]_vars

(***************************************************************************)
(* SpecExpand: uvec_reserve_capacity(c) then uvec_expand(e) on an empty     *)
(* vector, for every c and e; the vector is one uvec_init returns or one of *)
(* PairVectors with every element popped.  scn records c, e and the vector  *)
(* before uvec_expand.                                                      *)
(***************************************************************************)
InitExpand ==
    /\ v \in {w \in PairVectors : w.count = 0}
    /\ last = NoCall
    /\ scn = NoScenario

ReserveFirst(c) ==
    /\ Running
    /\ scn.phase = "idle"
    /\ \E res \in uvec_reserve_capacity(v, c) : Returns("reserve", c, Indeterminate, res)
    /\ scn' = [phase |-> "reserved", c |-> c]

Expand(e) ==
    /\ Running
    /\ scn.phase = "reserved"
    /\ last.ret = UVEC_OK
    /\ \E res \in uvec_expand(v, e) : Returns("expand", e, Indeterminate, res)
    /\ scn' = [phase |-> "expanded", c |-> scn.c, e |-> e, before |-> v]

NextExpand ==
    \/ \E c \in Uints : ReserveFirst(c)
    \/ \E e \in Uints : Expand(e)

SpecExpand == InitExpand /\ [][NextExpand]_vars

(***************************************************************************)
(* SpecPushRun: uvec_push called again and again on the vector uvec_init    *)
(* returns.  scn counts the pushes that returned UVEC_OK (n) and the calls  *)
(* of realloc among them (reallocs), and records whether every push so far  *)
(* returned UVEC_OK (ok) and whether the last one called realloc (grew).    *)
(***************************************************************************)
InitPushRun ==
    /\ v = uvec_init
    /\ last = NoCall
    /\ scn = [phase |-> "run", n |-> 0, reallocs |-> 0, ok |-> TRUE, grew |-> FALSE,
              before |-> uvec_init]

RunPush(item) ==
    /\ Running
    /\ v.count < MaxLen
    /\ \E res \in uvec_push(v, item) :
          /\ Returns("push", 0, item, res)
          /\ scn' = IF res.ret = UVEC_OK
                    THEN [scn EXCEPT !.n = scn.n + 1,
                                     !.reallocs = scn.reallocs + (IF res.alloc = "none" THEN 0 ELSE 1),
                                     !.grew = res.alloc # "none",
                                     !.before = v]
                    ELSE [scn EXCEPT !.ok = FALSE, !.grew = FALSE, !.before = v]

NextPushRun == \E item \in SortItems : RunPush(item)

SpecPushRun == InitPushRun /\ [][NextPushRun]_vars

\* The pushes of SpecPushRun, every length at most half of the largest uvec_uint.
NextPushRunHalf == NextPushRun /\ WithinHalf(0)

SpecPushRunHalf == InitPushRun /\ [][NextPushRunHalf]_vars

(***************************************************************************)
(* SpecSortStack: uvec_sort_range with a stack of SmallStack boundaries in  *)
(* place of P_UVEC_SORT_STACK_SIZE, and any slot of the partition as the    *)
(* pivot in place of the one the seed picks; the seed, which nothing else   *)
(* reads, is left as it was.  One call is made on each vector.              *)
(***************************************************************************)
SortRangePassAny ==
    /\ scn.phase = "sorting"
    /\ SortPending(scn.q)
    /\ \E index \in 0..MaxSortLen :
           /\ SortReset(scn.q).start <= index
           /\ index < SortReset(scn.q).len
           /\ \E q \in {[SortPass(scn.q, index) EXCEPT !.seed = scn.q.seed]} :
                  SortRangeGoes(q)

NextSortStack ==
    \/ \E start, len \in 0..MaxSortLen :
           scn.phase = "idle" /\ SortRangeEnter(start, len, SmallStack)
    \/ SortRangePassAny
    \/ SortRangePop
    \/ SortRangeReturn

SpecSortStack == InitSort /\ [][NextSortStack]_vars

(***************************************************************************)
(* SpecAppendSelf: uvec_append of a vector of PairVectors to a vector of    *)
(* PairVectors, or of the vector to itself; last.arg is 1 for the latter.   *)
(***************************************************************************)
AppendVec(other, same) ==
    /\ Running
    /\ Wrap(v.count + other.count) <= MaxLen
    /\ \E res \in uvec_append(v, other, same) :
           Returns("append", IF same THEN 1 ELSE 0, Indeterminate, res)
    /\ scn' = [phase |-> "appended", other |-> Live(other)]

NextAppendSelf ==
    \/ \E other \in PairVectors : AppendVec(other, FALSE)
    \/ AppendVec(v, TRUE)

SpecAppendSelf == InitFind /\ [][NextAppendSelf]_vars

\* ------------------------------------------------------------------ claims

\* The sequence s in reverse order.
ReverseSeq(s) == [i \in 1..Len(s) |-> s[Len(s) + 1 - i]]

IsPowerOfTwo(n) == \E k \in 0..UintBits : n = 2^k

\* The smallest power of two >= n, and 0 for n = 0.
SmallestPowerOfTwo(n) ==
    IF n = 0 THEN 0
    ELSE CHOOSE p \in {2^k : k \in 0..UintBits} :
             p >= n /\ \A q \in {2^k : k \in 0..UintBits} : q >= n => p <= q

\* C1: with every size at most half of the largest uvec_uint, 0 <= length <=
\* capacity in every reachable state.
C1_LengthWithinCapacity == 0 <= v.count /\ v.count <= v.allocated

\* C1 witness: an append filled the buffer to its capacity.
C1_Witness ==
    /\ last.op = "append_array" /\ last.ret = UVEC_OK /\ last.alloc = "ok"
    /\ v.count = 2 /\ v.allocated = 2

\* C2: after Shrink (as in every state), capacity == 0 iff storage references
\* no buffer.
C2_CapacityZeroIffNoStorage ==
    (last.op = "shrink" /\ last.ret = UVEC_OK) => ((v.allocated = 0) <=> (v.storage = "null"))

\* C3: when the allocator fails inside Reserve, Push, InsertAt or AppendArray,
\* the call returns UVEC_ERR and the vector (length, capacity, storage, every
\* slot) is as before the call.
C3_AllocFailureChangesNothing ==
    [][(/\ last'.op \in {"reserve", "push", "insert_at", "append_array"}
        /\ last'.alloc = "fail"
        /\ last'.ret # "ABORT")
       => (last'.ret = UVEC_ERR /\ v' = v)]_vars

\* C3 witness: an InsertAt in front of live elements met a failed allocation.
C3_Witness ==
    /\ last.op = "insert_at" /\ last.alloc = "fail" /\ last.ret = UVEC_ERR
    /\ last.arg = 0 /\ v.count = 2 /\ v.allocated = 2 /\ v.storage = "owned"

C5_ReserveEnsuresCapacity ==
    (last.op = "reserve" /\ last.ret = UVEC_OK)
    => /\ v.allocated >= last.arg
       /\ IsPowerOfTwo(v.allocated) \/ (v.allocated = 0 /\ last.arg = 0)

\* C6: a successful Shrink leaves capacity the smallest power of two >= length
\* (0 for length 0) and keeps length and the live elements; a Shrink whose
\* reallocation fails keeps the vector as it was.
C6_ShrinkToFit ==
    [][(last'.op = "shrink" /\ last'.ret # "ABORT")
       => /\ last'.ret = UVEC_OK
             => /\ v'.allocated = SmallestPowerOfTwo(v.count)
                /\ v'.count = v.count
                /\ Live(v') = Live(v)
          /\ last'.alloc = "fail" => (last'.ret = UVEC_ERR /\ v' = v)]_vars

\* C7: after k successful pushes followed by k pops, the popped sequence is
\* the reverse of the pushed one, and length and live elements are those
\* before the pushes. Stated for the pushes that start on a sound vector; the
\* claim, which is for any container state, implies it.
C7_PushPopDuality ==
    (scn.phase = "done" /\ Running /\ scn.sound)
    => /\ scn.popped = ReverseSeq(scn.pushed)
       /\ v.count = Len(scn.base)
       /\ Live(v) = scn.base

\* C8: a successful InsertAt(i, x) followed by RemoveAt(i) returns x and leaves
\* length and elements as before the insert. Stated for the inserts made on a
\* sound vector; the claim, which is for any container state, implies it.
C8_InsertRemoveDuality ==
    (scn.phase = "removed" /\ Running /\ scn.sound)
    => /\ last.out = scn.item
       /\ v.count = Len(scn.base)
       /\ Live(v) = scn.base

\* Whether s and t hold the same elements, each as many times.
SameElements(s, t) ==
    /\ Len(s) = Len(t)
    /\ \A x \in {s[i] : i \in 1..Len(s)} \cup {t[i] : i \in 1..Len(t)} :
           Cardinality({i \in 1..Len(s) : s[i] = x}) = Cardinality({i \in 1..Len(t) : t[i] = x})

\* The first position of s whose element is not less than x, Len(s) if none
\* (positions from 0).
LowerBound(s, x) ==
    IF \E i \in 1..Len(s) : ~(s[i] < x)
    THEN (CHOOSE i \in 1..Len(s) : ~(s[i] < x) /\ \A j \in 1..(i - 1) : s[j] < x) - 1
    ELSE Len(s)

\* C9: when Sort returns, the live range is ascending (a[i] <= a[i+1] for every
\* adjacent pair) and is a permutation of the elements it held before the call.
C9_SortAscendingPermutation ==
    (scn.phase = "sorted" /\ Running) =>
        /\ \A i \in 1..(v.count - 1) : Live(v)[i] <= Live(v)[i + 1]
        /\ SameElements(Live(v), scn.base)

\* C9 witness: a reverse-sorted vector with a duplicate was sorted.
C9_Witness ==
    /\ last.op = "sort" /\ Running
    /\ scn.phase = "sorted" /\ scn.base = <<3, 2, 2, 1>>
    /\ Live(v) = <<1, 2, 2, 3>>

\* C10: on a vector sorted ascending, InsertionIndexSorted returns the index a
\* linear-scan lower bound returns, whether or not the length exceeds the
\* linear-search threshold.
C10_SearchIsLowerBound ==
    (last.op = "insertion_index_sorted" /\ Running) =>
        last.out = LowerBound(Live(v), last.item)

\* C10 witness: the binary phase ran (length 4 over a threshold of 1) on a
\* vector with a duplicate of the item.
C10_Witness ==
    /\ last.op = "insertion_index_sorted" /\ Running
    /\ v.count > linear_search_thresh(last.arg) /\ last.arg = 64
    /\ Live(v) = <<1, 2, 2, 3>> /\ last.item = 2 /\ last.out = 1

\* The elements of the sequence s.
Elements(s) == {s[i] : i \in 1..Len(s)}

\* C11: on a sorted vector, IndexOfSorted(item) returns the sentinel whenever
\* item is not among the live elements, and otherwise an index below length
\* whose element equals item.
C11_IndexOfSortedInLiveRange ==
    (last.op = "index_of_sorted" /\ Running /\ Sound(v) /\ IsAscending(Live(v))) =>
        IF last.item \in Elements(Live(v))
        THEN last.out < v.count /\ Live(v)[last.out + 1] = last.item
        ELSE last.out = UVEC_INDEX_NOT_FOUND

\* No element of s is smaller than or equal to the one before it.
IsStrictlyAscending(s) == \A i \in 1..(Len(s) - 1) : s[i] < s[i + 1]

\* The sequence s with x inserted at position i (from 0).
InsertedAt(s, i, x) ==
    [k \in 1..(Len(s) + 1) |-> IF k <= i THEN s[k] ELSE IF k = i + 1 THEN x ELSE s[k - 1]]

\* C12: on a sorted, duplicate-free vector InsertSortedUnique(item) returns
\* UVEC_NO, the vector unchanged, if and only if item is a live element;
\* otherwise, the allocation succeeding, it returns UVEC_OK and item is
\* inserted at its lower-bound index, so that the vector stays strictly
\* ascending.
C12_InsertSortedUnique ==
    [][(/\ last'.op = "insert_sorted_unique" /\ last'.ret # "ABORT"
        /\ Sound(v) /\ IsStrictlyAscending(Live(v)))
       => /\ (last'.ret = UVEC_NO) <=> (last'.item \in Elements(Live(v)))
          /\ last'.ret = UVEC_NO => v' = v
          /\ last'.ret = UVEC_OK =>
                 /\ Live(v') = InsertedAt(Live(v), LowerBound(Live(v), last'.item), last'.item)
                 /\ IsStrictlyAscending(Live(v'))
          /\ last'.ret = UVEC_ERR => last'.alloc \in {"fail", "null_freed"}]_vars

\* C13: if the live range is ascending before InsertSorted(item) and the
\* allocation succeeds, then afterwards it is ascending, one longer, holds the
\* old elements plus item, and the index written to idx is the leftmost
\* position of an element equal to item.
C13_InsertSorted ==
    [][(/\ last'.op = "insert_sorted" /\ last'.ret = UVEC_OK
        /\ Sound(v) /\ IsAscending(Live(v)))
       => /\ IsAscending(Live(v'))
          /\ v'.count = v.count + 1
          /\ SameElements(Live(v'), Append(Live(v), last'.item))
          /\ last'.out < v'.count
          /\ Live(v')[last'.out + 1] = last'.item
          /\ \A j \in 1..last'.out : Live(v')[j] # last'.item]_vars

\* C14: uvec_equals(v1, v2) is true exactly when the two vectors have the same
\* length and equal elements at every index below it, whatever their
\* capacities and the slots past count hold; it is true of a vector and
\* itself, and gives the same answer with the two vectors exchanged.
C14_EqualsIsElementwise ==
    (last.op = "equals" /\ Running) =>
        /\ last.out = (Live(v) = Live(Other))
        /\ last.arg = 1 => last.out
        /\ last.out = EqualsValue(Other, v, last.arg = 1)

\* Two vectors with the same live elements, different capacities and
\* different slots past count, compared.
C14_Witness ==
    /\ last.op = "equals" /\ last.arg = 0 /\ last.out
    /\ v.count > 0
    /\ v.allocated # scn.other.allocated
    /\ \E i \in v.count..(v.allocated - 1) :
           /\ i < scn.other.allocated
           /\ ReadSlot(v.buf, i) # ReadSlot(scn.other.buf, i)

\* C15: uvec_index_of returns the smallest index below count whose element
\* equals item, uvec_index_of_reverse the largest; each returns
\* UVEC_INDEX_NOT_FOUND exactly when no live element equals item, whatever the
\* slots at and past count hold.
C15_IndexOfFirstAndLast ==
    (last.op \in {"index_of", "index_of_reverse"} /\ Running /\ Sound(v)) =>
        LET s == Live(v)
            matches == {i \in 0..(v.count - 1) : s[i + 1] = last.item}
        IN  /\ (last.out = UVEC_INDEX_NOT_FOUND) <=> (matches = {})
            /\ matches # {} =>
                   /\ last.out \in matches
                   /\ last.op = "index_of" => \A i \in matches : last.out <= i
                   /\ last.op = "index_of_reverse" => \A i \in matches : i <= last.out

\* A lookup of a value that only a slot past count holds, and a lookup of a
\* value that two live elements hold.
C15_Witness ==
    /\ last.op \in {"index_of", "index_of_reverse"}
    /\ \/ /\ last.out = UVEC_INDEX_NOT_FOUND
          /\ \E i \in v.count..(v.allocated - 1) : ReadSlot(v.buf, i) = last.item
       \/ /\ last.out # UVEC_INDEX_NOT_FOUND
          /\ Cardinality({i \in 1..v.count : Live(v)[i] = last.item}) > 1
          /\ last.op = "index_of_reverse"

\* The 0-based index of the first element of s equal to x, which s holds.
FirstIndex(s, x) ==
    CHOOSE i \in 0..(Len(s) - 1) : s[i + 1] = x /\ \A j \in 1..i : s[j] # x

\* The sequence s without its element at 0-based index i.
RemovedAt(s, i) == [k \in 1..(Len(s) - 1) |-> IF k <= i THEN s[k] ELSE s[k + 1]]

\* C18: uvec_remove returns true exactly when item equals a live element; then
\* the first occurrence is removed, count decreases by one and the other
\* elements keep their order; when it returns false the vector is unchanged.
C18_RemoveFirstOccurrence ==
    [][(last'.op = "remove" /\ last'.ret # "ABORT" /\ Sound(v)) =>
          /\ last'.out <=> (last'.item \in Elements(Live(v)))
          /\ last'.out =>
                 /\ v'.count = v.count - 1
                 /\ Live(v') = RemovedAt(Live(v), FirstIndex(Live(v), last'.item))
                 /\ v'.allocated = v.allocated
          /\ ~last'.out => v' = v]_vars

\* A removal of a value that occurs twice, with another value in between or
\* after.
C18_Witness ==
    /\ last.op = "remove" /\ last.out = TRUE
    /\ last.item \in Elements(Live(v))
    /\ Cardinality(Elements(Live(v))) > 1

\* C16: uvec_contains_any(vec, other) is true exactly when some live element of
\* other equals a live element of vec, whether other is a second vector or vec
\* itself, and whether or not the vectors are empty.
C16_ContainsAnyIsIntersection ==
    (last.op = "contains_any" /\ Running) =>
        last.out = (Elements(Live(v)) \cap Elements(Live(Other)) # {})

\* No two elements of s are equal.
NoDuplicates(s) == \A i, j \in 1..Len(s) : s[i] = s[j] => i = j

\* C17: uvec_push_unique returns UVEC_NO, the vector unchanged, exactly when
\* item equals a live element; UVEC_ERR, the vector unchanged, when item is
\* absent and the growth allocation fails; UVEC_OK with item appended at the
\* old count otherwise.  A vector built from the empty one by uvec_push_unique
\* alone never holds two equal elements.
C17_PushUniqueOutcomes ==
    [][(last'.op = "push_unique" /\ last'.ret # "ABORT" /\ Sound(v)) =>
          /\ last'.ret \in {UVEC_NO, UVEC_ERR, UVEC_OK}
          /\ (last'.ret = UVEC_NO) <=> (last'.item \in Elements(Live(v)))
          /\ last'.ret = UVEC_NO => v' = v
          /\ last'.ret = UVEC_ERR => v' = v /\ last'.alloc = "fail"
          /\ last'.ret = UVEC_OK =>
                 /\ Live(v') = Append(Live(v), last'.item)
                 /\ last'.alloc # "fail"
          /\ scn.only => NoDuplicates(Live(v'))]_vars

\* C19: a successful uvec_append_array of n > 0 elements of an array that is
\* not NULL leaves the elements below the old count as they were, copies
\* array[0..n) in order to the indices from the old count on and adds n to
\* count; with n = 0 or a NULL array the call returns UVEC_OK and count,
\* capacity and elements are unchanged.
C19_AppendArrayAppends ==
    [][(last'.op = "append_array" /\ last'.ret # "ABORT" /\ Sound(v)) =>
          /\ (last'.arg = 0 \/ scn'.isnull) => (last'.ret = UVEC_OK /\ v' = v)
          /\ (last'.arg > 0 /\ ~scn'.isnull /\ last'.ret = UVEC_OK) =>
                 /\ v'.count = v.count + last'.arg
                 /\ Live(v') = Live(v) \o SubSeq(scn'.array, 1, last'.arg)]_vars

\* The keys of the elements of s, in order.
Keys(s) == [i \in 1..Len(s) |-> Key(s[i])]

\* C20: a uvec_sort that follows a uvec_sort leaves every position as it was,
\* for every comparable instantiation, the ones where distinguishable elements
\* are equivalent for compare_func included.
C20_SortIdempotent ==
    [][(last.op = "sort" /\ last'.op = "sort" /\ Running /\ last'.ret # "ABORT") =>
          Live(v') = Live(v)]_vars

\* C20, as the code has it: a uvec_sort that follows a uvec_sort leaves at every
\* position an element equivalent for compare_func to the one that was there
\* (the same element where equivalent elements are equal, as for the
\* identifiable instantiations), and the same elements overall.
C20_SortIdempotentUpToEquivalence ==
    [][(last.op = "sort" /\ last'.op = "sort" /\ Running /\ last'.ret # "ABORT") =>
          /\ Keys(Live(v')) = Keys(Live(v))
          /\ SameElements(Live(v'), Live(v))
          /\ (\A i \in 1..v.count : Live(v)[i] < KeyedBase) => Live(v') = Live(v)]_vars

\* A second uvec_sort, of the ascending vector the first one left, which
\* exchanged two equivalent elements.
C20_Witness ==
    /\ last.op = "sort" /\ Running
    /\ scn.phase = "sorted" /\ scn.again
    /\ \A i \in 1..(Len(scn.base) - 1) : ~compare_func(scn.base[i + 1], scn.base[i])
    /\ Keys(Live(v)) = Keys(scn.base)
    /\ Live(v) # scn.base

\* The slots [from, from + n) of buf.
Slots(buf, from, n) == [i \in 1..n |-> ReadSlot(buf, from + i - 1)]

\* C21: uvec_sort_range(start, len) with start + len <= count reads and writes
\* only the slots [start, start + len): no scan reads an index outside it, the
\* slots outside it, count and allocated stay as they were all along, and on
\* return the sub-range is ascending and a permutation of what it held.
C21_SortRangeFrame ==
    (scn.phase \in {"sorting", "sorted"}) =>
        /\ ~scn.q.ub
        /\ scn.top > 1 => scn.q.reach < scn.top
        /\ v.count = scn.base.count /\ v.allocated = scn.base.allocated
        /\ \A i \in 0..(v.allocated - 1) :
               (i < scn.lo \/ i >= scn.lo + scn.top) =>
                   ReadSlot(v.buf, i) = ReadSlot(scn.base.buf, i)
        /\ SameElements(Slots(v.buf, scn.lo, scn.top), Slots(scn.base.buf, scn.lo, scn.top))
        /\ scn.phase = "sorted" => IsAscending(Slots(v.buf, scn.lo, scn.top))

\* A call that returned from sorting a sub-range with elements on both sides
\* of it, smaller ones after it, which it had to reorder.
C21_Witness ==
    /\ scn.phase = "sorted" /\ last.op = "sort_range" /\ Running
    /\ scn.lo > 0 /\ scn.lo + scn.top < v.count
    /\ Slots(v.buf, scn.lo, scn.top) # Slots(scn.base.buf, scn.lo, scn.top)
    /\ ReadSlot(v.buf, scn.lo + scn.top) < ReadSlot(v.buf, scn.lo)

\* C22: a successful uvec_copy returns a vector with a buffer of its own that
\* uvec_equals finds equal to the original, and a later push, pop, insert_at,
\* remove_at, set, shrink or free of one of the two leaves the count and the
\* elements of the other as they were.
C22_CopyIsIndependent ==
    [][/\ (last'.op = "copy" /\ last'.ret = UVEC_OK) =>
              /\ ~scn'.shared
              /\ EqualsValue(v', scn'.copy, FALSE)
              /\ Live(scn'.copy) = Live(v) /\ v' = v
       /\ (scn.phase \in {"copied", "changed"} /\ last'.arg = 0) =>
              /\ scn'.copy.count = scn.copy.count
              /\ scn'.copy.storage = scn.copy.storage
              /\ Live(scn'.copy) = Live(scn.copy)
       /\ (scn.phase \in {"copied", "changed"} /\ last'.arg = 1) =>
              /\ v'.count = v.count
              /\ v'.storage = v.storage
              /\ Live(v') = Live(v)]_vars

\* The original was freed and the copy written to, and the copy holds its
\* elements in a buffer of its own.
C22_Witness ==
    /\ scn.phase = "settled" /\ scn.gone = "vec"
    /\ scn.copy.count > 1
    /\ scn.copy.storage = "owned"
    /\ \E i \in 1..scn.copy.count : Live(scn.copy)[i] \in NewItems

\* The 0-based indices of the elements of s that no element of s is less than.
Minimal(s) == {i \in 0..(Len(s) - 1) : \A j \in 1..Len(s) : ~compare_func(s[j], s[i + 1])}

\* The 0-based indices of the elements of s that are less than no element of s.
Maximal(s) == {i \in 0..(Len(s) - 1) : \A j \in 1..Len(s) : ~compare_func(s[i + 1], s[j])}

\* C23: uvec_index_of_min returns the lowest index of an element that no live
\* element is less than, uvec_index_of_max the lowest index of an element that
\* is less than no live element; each returns UVEC_INDEX_NOT_FOUND exactly when
\* count is 0.
C23_IndexOfMinMax ==
    (last.op \in {"index_of_min", "index_of_max"} /\ Running /\ Sound(v)) =>
        LET extremes == IF last.op = "index_of_min" THEN Minimal(Live(v)) ELSE Maximal(Live(v))
        IN  /\ (last.out = UVEC_INDEX_NOT_FOUND) <=> (v.count = 0)
            /\ v.count # 0 => /\ last.out \in extremes
                              /\ \A i \in extremes : last.out <= i

\* A vector with two equivalent extremes, neither of them first, and a popped
\* slot that holds a smaller or a larger element.
C23_Witness ==
    /\ last.op \in {"index_of_min", "index_of_max"} /\ Running
    /\ last.out # UVEC_INDEX_NOT_FOUND /\ last.out > 0
    /\ \E i \in (last.out + 1)..(v.count - 1) :
           /\ ~compare_func(ReadSlot(v.buf, i), ReadSlot(v.buf, last.out))
           /\ ~compare_func(ReadSlot(v.buf, last.out), ReadSlot(v.buf, i))
           /\ ReadSlot(v.buf, i) # ReadSlot(v.buf, last.out)
    /\ v.count < v.allocated
    /\ ReadSlot(v.buf, v.count) # Indeterminate
    /\ \/ compare_func(ReadSlot(v.buf, v.count), ReadSlot(v.buf, last.out))
       \/ compare_func(ReadSlot(v.buf, last.out), ReadSlot(v.buf, v.count))

\* The larger of two sizes.
Larger(a, b) == IF a < b THEN b ELSE a

\* C24: after uvec_reserve_capacity(c) succeeds on an empty vector and
\* uvec_expand(e) then succeeds, allocated >= c + e, for all c and e.
C24_ExpandAddsToReserved ==
    (scn.phase = "expanded" /\ last.ret = UVEC_OK) => v.allocated >= scn.c + scn.e

\* C24, as the code has it: uvec_expand(e) is uvec_reserve_capacity(count + e),
\* so on an empty vector it leaves what uvec_reserve_capacity(e) leaves:
\* allocated unchanged when e is at most the allocated the first call left, and
\* allocated >= the larger of c and e, not c + e, for c and e within half of
\* the index range.
C24_ExpandReservesCountPlusSize ==
    (scn.phase = "expanded" /\ last.ret = UVEC_OK) =>
        /\ v \in {res.v : res \in uvec_reserve_capacity(scn.before, scn.before.count + scn.e)}
        /\ scn.e <= scn.before.allocated => v = scn.before
        /\ (scn.c <= HalfMax + 1 /\ scn.e <= HalfMax + 1) =>
               v.allocated >= Larger(scn.c, scn.e)

\* Both calls succeeded, within half of the index range, and the capacity is
\* less than c + e.
C24_Witness ==
    /\ scn.phase = "expanded" /\ last.ret = UVEC_OK
    /\ scn.c > 0 /\ scn.e > 0
    /\ scn.c + scn.e <= HalfMax + 1
    /\ v.allocated < scn.c + scn.e
    /\ v.allocated >= Larger(scn.c, scn.e)

\* C25: when count = allocated, a uvec_push or uvec_insert_at that returns
\* UVEC_OK has doubled allocated (0 becomes 2), whatever value allocated had,
\* 2^(w-1) included: afterwards allocated exceeds the old count and the new
\* element lies in a slot of the buffer.
C25_GrowthDoubles ==
    [][(last'.op \in {"push", "insert_at"} /\ last'.ret = UVEC_OK
        /\ Sound(v) /\ v.count = v.allocated) =>
          /\ v'.allocated = IF v.allocated = 0 THEN 2 ELSE 2 * v.allocated
          /\ v'.allocated > v.count
          /\ Len(v'.buf) = v'.allocated
          /\ LET idx == IF last'.op = "push" THEN v.count ELSE last'.arg
             IN  idx < Len(v'.buf) /\ ReadSlot(v'.buf, idx) = last'.item]_vars

\* The lengths at which a push of a run of n pushes finds count = allocated:
\* 0, 2, 4, 8, ...
GrowthPoints(n) == {k \in 0..(n - 1) : k = 0 \/ (k >= 2 /\ IsPowerOfTwo(k))}

\* C26: in a run of n pushes onto the vector uvec_init returns, all returning
\* UVEC_OK, realloc is called only by a push that finds count = allocated (at
\* counts 0, 2, 4, 8, ...), so allocated is the smallest power of two >= max(n,
\* 2) after the run and the calls of realloc are as many as those counts below
\* n.
C26_PushRunReallocations ==
    (scn.phase = "run" /\ scn.ok /\ scn.n > 0 /\ last.ret = UVEC_OK) =>
        /\ scn.grew <=> (scn.before.count = scn.before.allocated)
        /\ scn.grew <=> (scn.n - 1 \in GrowthPoints(scn.n))
        /\ v.count = scn.n
        /\ v.allocated = SmallestPowerOfTwo(Larger(scn.n, 2))
        /\ scn.reallocs = Cardinality(GrowthPoints(scn.n))

\* C27: no call passes a buffer that was released to realloc or free, in
\* particular not the uvec_shrink, uvec_push, uvec_insert_at,
\* uvec_reserve_capacity or uvec_deinit that follows a uvec_shrink of a vector
\* with count 0, and the call that destroys the vector leaves no buffer of it
\* unreleased.
C27_BuffersReleasedOnce ==
    [][/\ (v.storage = "released"
           /\ last'.op \in {"shrink", "push", "insert_at", "reserve", "append_array",
                            "deinit", "free"}) => ~last'.ub
       /\ (last'.op \in {"deinit", "free"} /\ last'.ret = UVEC_OK) => last'.out = FALSE]_vars

\* C28: a pass of uvec_sort_range that finds the stack of boundaries full
\* discards the boundaries and goes on from stack[0], the length of the range;
\* no pass writes past the stack, the range keeps its elements, and it is
\* ascending when uvec_sort_range returns, whichever pivots were picked.
C28_FullStackRestarts ==
    [][(scn'.phase \in {"sorting", "sorted"}) =>
           /\ ~scn'.q.ub
           /\ scn'.q.pos <= Len(scn'.q.stack)
           /\ scn'.q.pos > 0 => scn'.q.stack[1] = scn'.top
           /\ (scn.phase = "sorting" /\ SortPending(scn.q) /\ scn.q.pos = Len(scn.q.stack)) =>
                  /\ scn'.q.pos = 1
                  /\ scn'.q.reset
                  /\ scn'.q.start = scn.q.start
           /\ SameElements(Slots(v'.buf, scn'.lo, scn'.top),
                           Slots(scn'.base.buf, scn'.lo, scn'.top))
           /\ scn'.phase = "sorted" => IsAscending(Slots(v'.buf, scn'.lo, scn'.top))]_vars

\* A call that returned after a pass found the stack full, having reordered
\* the range.
C28_Witness ==
    /\ scn.phase = "sorted" /\ last.op = "sort_range" /\ Running
    /\ scn.q.reset
    /\ Len(scn.q.stack) = SmallStack
    /\ Slots(v.buf, scn.lo, scn.top) # Slots(scn.base.buf, scn.lo, scn.top)

\* C29: uvec_sort_range returns from every call: a pass that leaves the
\* partition as long as it was (the pivot its only largest element, in its last
\* slot) is followed, after finitely many passes, by one that shortens it.
C29_SortRangeTerminates ==
    /\ (scn.phase = "sorting") ~> (scn.phase = "sorted")
    /\ (scn.phase = "sorting" /\ scn.q.stall) ~> (scn.phase = "sorting" /\ ~scn.q.stall)

\* A pass has just left a partition of three elements or more as long as it
\* was, its largest element in its last slot.
C29_Witness ==
    /\ scn.phase = "sorting" /\ scn.q.stall
    /\ scn.q.len >= scn.q.start + 3
    /\ \A i \in scn.q.start..(scn.q.len - 2) :
           compare_func(ReadSlot(scn.q.buf, scn.q.off + i),
                        ReadSlot(scn.q.buf, scn.q.off + scn.q.len - 1))

\* C30: uvec_append of a sound vector to itself reads no buffer that realloc
\* released or moved, and where it succeeds the vector holds its old elements
\* followed by a copy of them.
C30_AppendSelfDoubles ==
    [][(last'.op = "append" /\ last'.arg = 1 /\ Sound(v)) =>
           /\ ~last'.ub
           /\ last'.ret = UVEC_OK => Live(v') = Live(v) \o Live(v)]_vars

====
